---- MODULE Spec2Model ----
(***************************************************************************)
(* A model of the etf-tracker acquisition pipeline:                        *)
(*   src/scrapers/mcx_scraper.py      time windows, spot cache, spot chain *)
(*   src/scrapers/etf_scraper_mcx.py  static cache, batches, merge         *)
(*                                                                         *)
(* Time is counted in whole minutes since a Monday 00:00.  Prices are      *)
(* counted in hundredths of a rupee (the code rounds every price to two    *)
(* decimals).  Ages returned by calculate_cache_age are counted in tenths  *)
(* of an hour (the code rounds them to one decimal).  A Python dict is a   *)
(* TLA+ record; an optional number is the empty set (None) or a singleton. *)
(***************************************************************************)
EXTENDS Integers, Sequences, FiniteSets, TLC

VARIABLES
    now,        \* the wall clock, read by every datetime.now()
    ticksLeft,  \* how many more minutes the clock may advance during calls
    cacheFile,  \* content of CACHE_FILE (mcx_cache.json)
    cacheAtCall, \* content of CACHE_FILE when the current call started
    pc,         \* position inside get_mcx_spot_prices
    callStart,  \* the clock when the current call started
    branch,     \* routing branches the current call has entered, in order
    tried,      \* source adapters the current call has invoked, in order,
                \* each with whether it returned a result
    writes,     \* the file writes since the current call started, in order
    fresh,      \* what is_cache_fresh returned to the current call
    freshAt,    \* the clock when is_cache_fresh read it
    mcxGate,    \* what is_mcx_active_window returned inside the cascade
    result,     \* the value the current call returned
    via,        \* where the returned value came from
    callsLeft,  \* calls of get_mcx_spot_prices that may still be started
    sites,      \* what the NSE site and the browser driver can do in this run
    staticFile, \* content of STATIC_CACHE_FILE_DATA (data/etf_static_cache.csv)
    cyc,        \* position inside scrape_all_etfs_parallel
    mcx_prices, \* the spot record the cycle works with
    static_cache,   \* the cycle's static_cache dict, symbol -> row
    staticReadAt,   \* the clock when load_static_cache read it
    needs_static_refresh,
    refreshReadAt,  \* the clock when should_refresh_static_cache read it
    static_idx,     \* the next instrument of the static refresh loop
    static_data_list,
    wpc,        \* per batch: the position of scrape_etf_batch_parallel
    wresults,   \* per batch: the results list of its worker
    fetched,    \* what scrape_etf_fast returned for each symbol this cycle
    merged,     \* the batches whose future the main thread has consumed
    all_results,
    success_count,
    snapshot,   \* the value scrape_all_etfs_parallel returned
    mcx_data,   \* what step 1 of run_scraper.main got from its own call of
                \* get_mcx_spot_prices, and the writes of that call
    nse_pages,  \* per batch: the quote page its scrape_etf_fast holds while
                \* the AMC fallback runs
    drivers,    \* the browser sessions open, and how many were created and
                \* quit since the current call or cycle started
    calc        \* the pure function applied to given inputs, and its result

spotVars == <<cacheFile, cacheAtCall, pc, callStart, branch, tried, fresh,
              freshAt, mcxGate, result, via, callsLeft>>

cycVars == <<sites, staticFile, cyc, mcx_prices, static_cache, staticReadAt,
             needs_static_refresh, refreshReadAt, static_idx, static_data_list,
             wpc, wresults, fetched, merged, all_results, success_count,
             snapshot, nse_pages, mcx_data>>

vars == <<now, ticksLeft, writes, spotVars, cycVars, drivers, calc>>

----------------------------------------------------------------------------
(* Bounds of the model.                                                    *)

\* calls of get_mcx_spot_prices in one behaviour
MaxCalls == 2
\* minutes the clock may advance while calls are in progress
MaxTicks == 2
\* largest age, in minutes, of a cache entry present at the start
MaxAge == 1460

----------------------------------------------------------------------------
(* The clock: datetime.now().weekday(), .hour, .minute                     *)

MinutesPerDay == 24 * 60
MinutesPerWeek == 7 * MinutesPerDay

Weekday(t) == (t \div MinutesPerDay) % 7
Hour(t) == (t % MinutesPerDay) \div 60
Minute(t) == t % 60

\* the instant of weekday d at h:m
At(d, h, m) == d * MinutesPerDay + h * 60 + m

----------------------------------------------------------------------------
(* Time window detection                                                   *)

is_ibja_requests_only_window(t) ==
    \/ (Hour(t) = 7 /\ Minute(t) >= 0)
    \/ (Hour(t) >= 8 /\ Hour(t) < 12)
    \/ (Hour(t) = 12 /\ Minute(t) < 30)

is_ibja_active_window(t) ==
    IF Weekday(t) >= 5
    THEN FALSE
    ELSE \/ (Hour(t) = 12 /\ Minute(t) >= 40)
         \/ (Hour(t) >= 13 /\ Hour(t) < 22)

\* is_mcx_active_window without its weekend rule
is_mcx_active_window_weekdays(t) ==
    Hour(t) >= 17 \/ Hour(t) < 7

is_mcx_active_window(t) ==
    IF Weekday(t) >= 5
    THEN TRUE
    ELSE (Hour(t) >= 17 \/ Hour(t) < 7) /\ Weekday(t) < 5

\* is_dead_zone with the first minute left out
is_dead_zone_from_31(t) ==
    Hour(t) = 12 /\ 30 < Minute(t) /\ Minute(t) < 40

is_dead_zone(t) ==
    Hour(t) = 12 /\ 30 <= Minute(t) /\ Minute(t) < 40

----------------------------------------------------------------------------
(* Cache functions                                                         *)

CACHE_FILE == "mcx_cache.json"
CACHE_VALIDITY_HOURS == 2

None == {}
Some(x) == {x}
Get(o) == CHOOSE x \in o : TRUE

\* Ages in whole minutes at which minutes/60 lies exactly halfway between two
\* tenths of an hour and Python's round(age, 1) goes down, because the double
\* nearest to the quotient lies below the halfway point (ages 0..1699).
RoundsDownAtTie ==
    {9, 15, 21, 51, 57, 69, 75, 87, 99, 117, 123, 129, 135, 153, 159, 183, 189,
     195, 213, 219, 243, 255, 261, 273, 291, 303, 315, 321, 333, 351, 363, 375,
     381, 393, 411, 423, 435, 441, 453, 471, 495, 501, 507, 531, 537, 555, 561,
     567, 591, 597, 615, 621, 627, 651, 657, 675, 681, 687, 711, 717, 735, 741,
     747, 771, 777, 795, 801, 807, 831, 837, 855, 861, 867, 891, 897, 915, 921,
     927, 951, 957, 969, 975, 987, 999, 1017, 1029, 1035, 1047, 1059, 1077,
     1089, 1095, 1107, 1119, 1137, 1149, 1155, 1167, 1179, 1197, 1209, 1215,
     1227, 1239, 1257, 1269, 1275, 1287, 1299, 1317, 1329, 1335, 1347, 1359,
     1377, 1389, 1395, 1407, 1419, 1437, 1449, 1455, 1467, 1479, 1497, 1509,
     1515, 1527, 1539, 1557, 1569, 1575, 1587, 1599, 1617, 1629, 1635, 1647,
     1659, 1677, 1689, 1695}

\* round(minutes / 60, 1), in tenths of an hour
RoundTenths(minutes) ==
    IF minutes \in RoundsDownAtTie
    THEN (minutes * 10 + 30) \div 60 - 1
    ELSE (minutes * 10 + 30) \div 60

\* A timestamp is [iso |-> TRUE, at |-> t], or [iso |-> FALSE, at |-> 0] for a
\* string datetime.fromisoformat rejects.
Stamp(t) == [iso |-> TRUE, at |-> t]
BadStamp == [iso |-> FALSE, at |-> 0]

\* calculate_cache_age: None when the timestamp is missing or unparsable
calculate_cache_age(cache_timestamp, t) ==
    IF cache_timestamp = None \/ ~Get(cache_timestamp).iso
    THEN None
    ELSE Some(RoundTenths(t - Get(cache_timestamp).at))

\* The file: [kind |-> "absent"], [kind |-> "corrupt"] (not JSON), or
\* [kind |-> "json", data |-> <dict>].
Absent == [kind |-> "absent"]
Corrupt == [kind |-> "corrupt"]
Json(d) == [kind |-> "json", data |-> d]

\* dict.get(key) as an optional value
DictGet(d, key) == IF key \in DOMAIN d THEN Some(d[key]) ELSE None
\* dict.pop(key, None) on a copy
DictPop(d, key) == [k \in (DOMAIN d) \ {key} |-> d[k]]
\* dict[key] = value
DictSet(d, key, value) ==
    [k \in (DOMAIN d) \cup {key} |-> IF k = key THEN value ELSE d[k]]

ZeroFallback(t) ==
    [gold_per_gram |-> 0,
     silver_per_gram |-> 0,
     source |-> "Fallback",
     timestamp |-> Stamp(t),
     timestamp_display |-> t,
     note |-> [text |-> "No data available (cache missing)"],
     cache_age_hours |-> None]

\* the note load_cache writes: the age in minutes below one hour, else in hours
AgeNote(cache, cache_age) ==
    [text |-> "Using cached data",
     age_str |-> IF cache_age < 10
                 THEN <<"minutes", (cache_age * 60) \div 10>>
                 ELSE <<"hours", cache_age>>,
     last_updated |-> DictGet(cache, "timestamp_display")]

\* the annotation with the warnings starting at the thresholds themselves
Annotated_from_threshold(cache, cache_age) ==
    LET a == DictSet(cache, "cache_age_hours", Some(cache_age))
        b == DictSet(a, "note", AgeNote(cache, cache_age))
    IN  IF cache_age >= 240
        THEN DictSet(b, "warning", <<"red", cache_age>>)
        ELSE IF cache_age >= 120
             THEN DictSet(b, "warning", <<"yellow", cache_age>>)
             ELSE b

Annotated(cache, cache_age) ==
    LET a == DictSet(cache, "cache_age_hours", Some(cache_age))
        b == DictSet(a, "note", AgeNote(cache, cache_age))
    IN  IF cache_age > 240
        THEN DictSet(b, "warning", <<"red", cache_age>>)
        ELSE IF cache_age > 120
             THEN DictSet(b, "warning", <<"yellow", cache_age>>)
             ELSE b

\* load_cache with a log line that accepts an age of None: a record whose
\* timestamp is missing or does not parse is returned as it is stored
load_cache_any_timestamp(file, t) ==
    IF file.kind # "json"
    THEN ZeroFallback(t)
    ELSE LET cache == file.data
             cache_age == calculate_cache_age(DictGet(cache, "timestamp"), t)
         IN  IF cache_age = None
             THEN cache
             ELSE Annotated(cache, Get(cache_age))

\* load_cache returning the stored record as it is
load_cache_as_stored(file, t) ==
    IF file.kind # "json"
    THEN ZeroFallback(t)
    ELSE IF calculate_cache_age(DictGet(file.data, "timestamp"), t) = None
         THEN ZeroFallback(t)
         ELSE file.data

\* load_cache: the value returned when the file holds `file` and the clock
\* reads t.  A missing timestamp or one that does not parse leaves cache_age
\* None, and formatting None with :.1f in the log line raises inside the try.
load_cache(file, t) ==
    IF file.kind # "json"
    THEN ZeroFallback(t)
    ELSE LET cache == file.data
             cache_age == calculate_cache_age(DictGet(cache, "timestamp"), t)
         IN  IF cache_age = None
             THEN ZeroFallback(t)
             ELSE Annotated(cache, Get(cache_age))

\* a cache that is never taken as fresh
is_cache_fresh_never(file, t) == FALSE

is_cache_fresh(file, t) ==
    IF file.kind # "json"
    THEN FALSE
    ELSE LET cache_age == calculate_cache_age(DictGet(file.data, "timestamp"), t)
         IN  IF cache_age = None
             THEN FALSE
             ELSE Get(cache_age) < CACHE_VALIDITY_HOURS * 10

\* save_cache leaving the note in the record it writes
save_cache_keeps_note(data) ==
    Json(DictPop(DictPop(data, "cache_age_hours"), "warning"))

\* save_cache: the file content after save_cache(data)
save_cache(data) ==
    Json(DictPop(DictPop(DictPop(data, "note"), "cache_age_hours"), "warning"))

----------------------------------------------------------------------------
(* Source adapters.  What a site serves is the environment's choice: an    *)
(* error (exception, HTTP error, timeout), a page without the rates table, *)
(* or a page whose cells hold optional numbers.                            *)

\* round(x / d, 2) for x counted in units and the result in hundredths, where
\* d is 10 or 1000: the quotient of x * 100 by d, rounded to nearest.  The
\* pages enumerated below hold no value exactly halfway between hundredths.
RoundHundredths(x, d) == (2 * 100 * x + d) \div (2 * d)

\* Python truthiness of an optional int: None and 0 are false
Truthy(o) == o # None /\ Get(o) # 0

PageError == [kind |-> "error"]
NoTable == [kind |-> "no_table"]
Page(g, s) == [kind |-> "page", gold |-> g, silver |-> s]

\* www.ibjarates.com: lblGold995_AM per 10 g, lblSilver999_AM per kg
IbjaPages ==
    {PageError, NoTable}
    \cup {Page(g, s) : g \in {None, Some(0), Some(61500)},
                       s \in {None, Some(4), Some(74213)}}

\* www.mcxindia.com: the spot cell of table tblSMP, per 10 g and per kg;
\* None when the table, its row or the cell is not there
McxPages ==
    {PageError}
    \cup {Page(g, s) : g \in {None, Some(0), Some(61480)},
                       s \in {None, Some(74190)}}

Rates(gold, silver, source, t) ==
    [gold_per_gram |-> gold,
     silver_per_gram |-> silver,
     source |-> source,
     timestamp |-> Stamp(t),
     timestamp_display |-> t,
     cache_age_hours |-> Some(0)]

\* the extraction shared by scrape_ibja_with_requests and
\* scrape_ibja_with_selenium: None, or Some(rates)
ScrapeIbja(page, source, t) ==
    IF page.kind # "page"
    THEN None
    ELSE IF Truthy(page.gold) /\ Truthy(page.silver)
         THEN Some(Rates(RoundHundredths(Get(page.gold), 10),
                         RoundHundredths(Get(page.silver), 1000),
                         source, t))
         ELSE None

scrape_ibja_with_requests(page, t) == ScrapeIbja(page, "IBJA (Requests)", t)

scrape_ibja_with_selenium(page, t) == ScrapeIbja(page, "IBJA (Selenium)", t)

scrape_mcx_official(page, t) ==
    IF page.kind # "page"
    THEN None
    ELSE LET gold_per_gram == IF page.gold = None THEN 0
                              ELSE RoundHundredths(Get(page.gold), 10)
             silver_per_gram == IF page.silver = None THEN 0
                                ELSE RoundHundredths(Get(page.silver), 1000)
         IN  IF gold_per_gram > 0 /\ silver_per_gram > 0
             THEN Some(Rates(gold_per_gram, silver_per_gram, "MCX_Spot", t))
             ELSE None

----------------------------------------------------------------------------
(* etf_scraper_mcx.py: the static cache                                    *)

\* in seconds; the clock of the model counts minutes
STATIC_CACHE_FILE_DATA == "data/etf_static_cache.csv"
STATIC_CACHE_TTL == 1 * 60 * 60

\* (datetime.now() - cache_time).total_seconds()
age_seconds(t, cache_time) == (t - cache_time) * 60

\* NaN, what pandas reads from an empty CSV cell
NaN == "NaN"

\* The file data/etf_static_cache.csv: Absent, Corrupt (pandas cannot read
\* it), or [kind |-> "csv", rows |-> <sequence of dicts>].
Csv(rows) == [kind |-> "csv", rows |-> rows]

\* DataFrame.to_csv then pd.read_csv on one cell: an empty string comes back
\* as NaN, numbers and other strings come back as they were
CsvCell(v) == IF v = "" THEN NaN ELSE v
\* ... on one row; the columns whose cells may be empty strings are named
CsvRow(row) ==
    [k \in DOMAIN row |->
        IF k = "week52HighDate" THEN CsvCell(row[k]) ELSE row[k]]

\* {row['symbol']: row.to_dict() for each row}: a later row replaces an
\* earlier one of the same symbol
RowsBySymbol(rows) ==
    LET last(sym) == CHOOSE i \in 1..Len(rows) :
                        /\ rows[i].symbol = sym
                        /\ \A j \in (i + 1)..Len(rows) : rows[j].symbol # sym
    IN  [sym \in {rows[i].symbol : i \in 1..Len(rows)} |-> CsvRow(rows[last(sym)])]

EmptyDict == [sym \in {} |-> {}]

\* load_static_cache expiring the file from the TTL on
load_static_cache_from_ttl(file, t) ==
    IF file.kind # "csv"
    THEN EmptyDict
    ELSE IF Len(file.rows) > 0 /\ "timestamp" \in DOMAIN file.rows[1]
         THEN IF ~file.rows[1].timestamp.iso
              THEN EmptyDict
              ELSE IF age_seconds(t, file.rows[1].timestamp.at) >= STATIC_CACHE_TTL
                   THEN EmptyDict
                   ELSE RowsBySymbol(file.rows)
         ELSE RowsBySymbol(file.rows)

\* load_static_cache, when the file holds `file` and the clock reads t
load_static_cache(file, t) ==
    IF file.kind # "csv"
    THEN EmptyDict
    ELSE IF Len(file.rows) > 0 /\ "timestamp" \in DOMAIN file.rows[1]
         THEN IF ~file.rows[1].timestamp.iso
              THEN EmptyDict
              ELSE IF age_seconds(t, file.rows[1].timestamp.at) > STATIC_CACHE_TTL
                   THEN EmptyDict
                   ELSE RowsBySymbol(file.rows)
         ELSE RowsBySymbol(file.rows)

\* should_refresh_static_cache(static_cache), reading the file again
should_refresh_static_cache(cache, file, t) ==
    IF DOMAIN cache = {}
    THEN TRUE
    ELSE IF file.kind # "csv"
         THEN TRUE
         ELSE IF Len(file.rows) > 0 /\ "timestamp" \in DOMAIN file.rows[1]
              THEN IF ~file.rows[1].timestamp.iso
                   THEN TRUE
                   ELSE age_seconds(t, file.rows[1].timestamp.at) > STATIC_CACHE_TTL
              ELSE FALSE

\* save_static_cache: every entry is stamped with the same timestamp, in
\* place, and the list becomes the file
Stamped(entries, t) ==
    [i \in 1..Len(entries) |-> DictSet(entries[i], "timestamp", Stamp(t))]

save_static_cache(entries, t) == Csv(Stamped(entries, t))

----------------------------------------------------------------------------
(* etf_scraper_mcx.py: instruments, page scrapers, derived metrics         *)

\* instruments of the model's ETF_LIST
NumEtfs == 2

\* ETF_DATABASE, two instruments of each list in the order of the source,
\* without their display names; metal per unit is counted in 1/100000 gram
gold_etfs ==
    <<[symbol |-> "GOLDBEES", type |-> "gold", isin |-> "INF204KB17I5",
       gold_per_unit |-> 869],
      [symbol |-> "GOLD360", type |-> "gold", isin |-> "INF966L01019",
       gold_per_unit |-> 959]>>

silver_etfs ==
    <<[symbol |-> "HDFCSILVER", type |-> "silver", isin |-> "INF179KB1AL3",
       silver_per_unit |-> 100000],
      [symbol |-> "TATSILV", type |-> "silver", isin |-> "INF277K01FN2",
       silver_per_unit |-> 10000]>>

Min(a, b) == IF a < b THEN a ELSE b

\* ETF_LIST = gold_etfs + silver_etfs, cut down to NumEtfs instruments: the
\* first gold ones, then the first silver ones
ETF_LIST ==
    SubSeq(gold_etfs, 1, Min((NumEtfs + 1) \div 2, Len(gold_etfs)))
    \o SubSeq(silver_etfs, 1, Min(NumEtfs \div 2, Len(silver_etfs)))

\* <<q, r>> with a * k = q * d + r and 0 <= r < d, for 0 <= a < d, computed
\* by doubling so that no intermediate value exceeds 2 * d
RECURSIVE MulMod(_, _, _)
MulMod(a, k, d) ==
    IF k = 0
    THEN <<0, 0>>
    ELSE LET h == MulMod(a, k \div 2, d)
             q2 == 2 * h[1] + (IF 2 * h[2] >= d THEN 1 ELSE 0)
             r2 == (2 * h[2]) % d
         IN  IF k % 2 = 0
             THEN <<q2, r2>>
             ELSE <<q2 + (IF r2 + a >= d THEN 1 ELSE 0), (r2 + a) % d>>

\* a * k / d rounded to the nearest integer, for a >= 0, k >= 0, d > 0
RoundMulDiv(a, k, d) ==
    LET h == MulMod(a % d, k, d)
    IN  (a \div d) * k + h[1] + (IF 2 * h[2] >= d THEN 1 ELSE 0)

\* n / d * 100 cut after two decimals instead of rounded
Percent_truncated(n, d) ==
    IF n >= 0 THEN MulMod(n % d, 10000, d)[1] + (n \div d) * 10000
    ELSE 0 - (MulMod((0 - n) % d, 10000, d)[1] + ((0 - n) \div d) * 10000)

\* round(n / d * 100, 2) in hundredths, for d > 0 and n of either sign
Percent(n, d) ==
    IF n >= 0 THEN RoundMulDiv(n, 10000, d) ELSE 0 - RoundMulDiv(0 - n, 10000, d)

\* What the NSE quote page of a symbol serves on one attempt: a timeout of
\* the wait for quoteLtp, an exception, or the fields read by id (a field
\* that is not on the page reads as 0, week52HighDate as "").
PageTimeout == [kind |-> "timeout"]
Quote(price, inav, prev, date) ==
    [kind |-> "page", price |-> price, inav |-> inav, prevClose |-> prev,
     open |-> prev, dayHigh |-> price, dayLow |-> prev, week52High |-> price,
     week52HighDate |-> date, deliveryPercent |-> 4250, volume |-> 120000]

GoodQuote == Quote(5500, 5480, 5450, "05-Sep-2025")

NsePages ==
    {PageTimeout, Quote(0, 0, 0, ""), GoodQuote, Quote(5520, 0, 0, "")}

max_retries == 2

\* the pages the attempts of one scrape_etf_fast call find: the attempts
\* before attempt k find no price, attempt k finds any page
Attempts(pages) ==
    {[i \in 1..(max_retries + 1) |-> IF i < k THEN bad ELSE last] :
        k \in 1..(max_retries + 1),
        bad \in {PageTimeout, Quote(0, 0, 0, "")},
        last \in pages}

\* what the quote page serves to scrape_static_fields
StaticPages == {PageTimeout, Quote(0, 0, 0, ""), GoodQuote}

\* the symbols whose iNAV an AMC site can supply when NSE shows none
AmcSymbols ==
    {"GOLD360", "BSLGOLDETF", "SILVER", "SETFGOLD", "SBISILVER", "GOLDSHARE",
     "HDFCSILVER"}

\* the AMC fallback of scrape_etf_fast: amc is what the AMC site yields for
\* the symbol (0 when it yields nothing or the attempt raises)
AmcInav(symbol, amc) == IF symbol \in AmcSymbols THEN amc ELSE 0
\* what the AMC site of a symbol may yield
AmcYields(symbol) == IF symbol \in AmcSymbols THEN {0, 5490} ELSE {0}

\* scrape_etf_fast giving up after its first attempt
scrape_etf_fast_no_retry(pages, amc, symbol, isin, retry_count, t) ==
    LET page == pages[retry_count + 1]
        retry == None
    IN  IF page.kind # "page"
        THEN retry
        ELSE IF page.price <= 0
        THEN retry
        ELSE LET price == page.price
                 inav == IF page.inav = 0 THEN AmcInav(symbol, amc) ELSE page.inav
                 prev_close == page.prevClose
                 change == IF prev_close > 0 THEN price - prev_close ELSE 0
                 change_percent == IF prev_close > 0
                                   THEN Percent(change, prev_close) ELSE 0
                 discount == IF inav > 0 THEN Percent(price - inav, inav) ELSE 0
             IN  Some([symbol |-> symbol,
                       isin |-> isin,
                       price |-> price,
                       inav |-> inav,
                       discount |-> discount,
                       change |-> change,
                       changePercent |-> change_percent,
                       open |-> page.open,
                       dayHigh |-> page.dayHigh,
                       dayLow |-> page.dayLow,
                       week52High |-> page.week52High,
                       week52HighDate |-> page.week52HighDate,
                       prevClose |-> prev_close,
                       deliveryPercent |-> page.deliveryPercent,
                       vwap |-> price,
                       volume |-> page.volume,
                       lastUpdate |-> t,
                       status |-> "live",
                       dataAge |-> "live"])

\* scrape_etf_fast: pages[i] is what attempt i finds; None, or Some(result)
RECURSIVE scrape_etf_fast(_, _, _, _, _, _)
scrape_etf_fast(pages, amc, symbol, isin, retry_count, t) ==
    LET page == pages[retry_count + 1]
        retry == IF retry_count < max_retries
                 THEN scrape_etf_fast(pages, amc, symbol, isin, retry_count + 1, t)
                 ELSE None
    IN  IF page.kind # "page"
        THEN retry
        ELSE IF page.price <= 0
        THEN retry
        ELSE LET price == page.price
                 inav == IF page.inav = 0 THEN AmcInav(symbol, amc) ELSE page.inav
                 prev_close == page.prevClose
                 change == IF prev_close > 0 THEN price - prev_close ELSE 0
                 change_percent == IF prev_close > 0
                                   THEN Percent(change, prev_close) ELSE 0
                 discount == IF inav > 0 THEN Percent(price - inav, inav) ELSE 0
             IN  Some([symbol |-> symbol,
                       isin |-> isin,
                       price |-> price,
                       inav |-> inav,
                       discount |-> discount,
                       change |-> change,
                       changePercent |-> change_percent,
                       open |-> page.open,
                       dayHigh |-> page.dayHigh,
                       dayLow |-> page.dayLow,
                       week52High |-> page.week52High,
                       week52HighDate |-> page.week52HighDate,
                       prevClose |-> prev_close,
                       deliveryPercent |-> page.deliveryPercent,
                       vwap |-> price,
                       volume |-> page.volume,
                       lastUpdate |-> t,
                       status |-> "live",
                       dataAge |-> "live"])

\* scrape_static_fields: None when the page does not load or a field is
\* missing, else Some(the five static fields)
scrape_static_fields(page, symbol) ==
    IF page.kind # "page"
    THEN None
    ELSE Some([symbol |-> symbol,
               prevClose |-> page.prevClose,
               open |-> page.open,
               week52High |-> page.week52High,
               week52HighDate |-> page.week52HighDate,
               vwap |-> page.price])

\* {**a, **b}: the keys of both, b's value where both have the key
DictMerge(a, b) ==
    [k \in (DOMAIN a) \cup (DOMAIN b) |-> IF k \in DOMAIN b THEN b[k] ELSE a[k]]

\* dict.get(key, default)
GetOr(d, key, default) == IF key \in DOMAIN d THEN d[key] ELSE default

\* calculate_mcx_fields(etf, mcx_gold, mcx_silver): the etf dict afterwards.
\* price / metal_per_unit in hundredths of a rupee per gram is
\* price * 100000 / metal_per_unit with the model's units, and
\* (effective - spot) / spot * 100 is price * 10^9 / (spot * metal) - 10000
\* in hundredths of a percent.
\* the price read back from the effective price of an earlier application
calculate_mcx_fields_from_effective(etf, mcx_gold, mcx_silver) ==
    LET etf_type == GetOr(etf, "type", "")
        metal_per_unit == IF etf_type = "gold"
                          THEN GetOr(etf, "gold_per_unit", 0)
                          ELSE GetOr(etf, "silver_per_unit", 0)
        price == GetOr(etf, "effective_price_per_gram", GetOr(etf, "price", 0))
        ibja_spot == IF etf_type = "gold" THEN mcx_gold ELSE mcx_silver
        effective_price == IF metal_per_unit > 0
                           THEN RoundMulDiv(price, 100000, metal_per_unit)
                           ELSE 0
        fields == IF ibja_spot > 0
                  THEN [effective_price_per_gram |-> effective_price,
                        mcx_spot_per_gram |-> ibja_spot,
                        discount_vs_mcx |-> 0]
                  ELSE [effective_price_per_gram |-> 0,
                        mcx_spot_per_gram |-> ibja_spot,
                        discount_vs_mcx |-> 0]
    IN  DictMerge(etf, fields)

\* the gold spot price used for every instrument
calculate_mcx_fields_gold_spot(etf, mcx_gold, mcx_silver) ==
    LET etf_type == GetOr(etf, "type", "")
        metal_per_unit == IF etf_type = "gold"
                          THEN GetOr(etf, "gold_per_unit", 0)
                          ELSE GetOr(etf, "silver_per_unit", 0)
        price == GetOr(etf, "price", 0)
        effective_price == IF metal_per_unit > 0
                           THEN RoundMulDiv(price, 100000, metal_per_unit)
                           ELSE 0
        vs_ibja == IF metal_per_unit > 0
                   THEN RoundMulDiv(price, 1000000000, mcx_gold * metal_per_unit)
                        - 10000
                   ELSE 0 - 10000
        fields == IF mcx_gold > 0
                  THEN [effective_price_per_gram |-> effective_price,
                        mcx_spot_per_gram |-> mcx_gold,
                        discount_vs_mcx |-> vs_ibja]
                  ELSE [effective_price_per_gram |-> 0,
                        mcx_spot_per_gram |-> mcx_gold,
                        discount_vs_mcx |-> 0]
    IN  DictMerge(etf, fields)

calculate_mcx_fields(etf, mcx_gold, mcx_silver) ==
    LET etf_type == GetOr(etf, "type", "")
        metal_per_unit == IF etf_type = "gold"
                          THEN GetOr(etf, "gold_per_unit", 0)
                          ELSE GetOr(etf, "silver_per_unit", 0)
        price == GetOr(etf, "price", 0)
        ibja_spot == IF etf_type = "gold" THEN mcx_gold ELSE mcx_silver
        effective_price == IF metal_per_unit > 0
                           THEN RoundMulDiv(price, 100000, metal_per_unit)
                           ELSE 0
        vs_ibja == IF metal_per_unit > 0
                   THEN RoundMulDiv(price, 1000000000, ibja_spot * metal_per_unit)
                        - 10000
                   ELSE 0 - 10000
        fields == IF ibja_spot > 0
                  THEN [effective_price_per_gram |-> effective_price,
                        mcx_spot_per_gram |-> ibja_spot,
                        discount_vs_mcx |-> vs_ibja]
                  ELSE [effective_price_per_gram |-> 0,
                        mcx_spot_per_gram |-> ibja_spot,
                        discount_vs_mcx |-> 0]
    IN  DictMerge(etf, fields)

----------------------------------------------------------------------------
(* get_mcx_spot_prices, one action per clock read or adapter invocation.   *)
(* Every window predicate, is_cache_fresh, load_cache and every adapter    *)
(* reads datetime.now() on its own, so the clock may advance between them. *)

NoResult == [pending |-> TRUE]

Entered(b) == Append(branch, b)
Tried(a, r) == Append(tried, [adapter |-> a, ok |-> r # None])

\* the call starts; wait is the time since the previous call returned
\* no browser session is open and none has been created
NoDrivers == [open |-> {}, created |-> 0, quit |-> 0]

\* the sessions: the driver of an adapter of get_mcx_spot_prices, of the
\* static refresh, of the worker of batch b, and of the AMC fallback inside
\* the scrape_etf_fast of that worker
SpotSession(adapter) == [kind |-> adapter, worker |-> 0]
StaticSession == [kind |-> "static", worker |-> 0]
BatchSession(b) == [kind |-> "batch", worker |-> b]
AmcSession(b) == [kind |-> "amc", worker |-> b]

\* webdriver.Chrome(...) returned a session
Acquire(drv, session) ==
    [drv EXCEPT !.open = @ \cup {session}, !.created = @ + 1]

\* driver.quit() left out
Quit_leaves_open(drv, session) == drv

\* driver.quit()
Quit(drv, session) ==
    [drv EXCEPT !.open = @ \ {session}, !.quit = @ + 1]

\* an adapter that drives a browser creates its session and quits it in its
\* finally clause; scrape_ibja_with_requests uses none
AfterAdapter(drv, adapter) ==
    IF adapter \in {"selenium", "mcx"}
    THEN Quit(Acquire(drv, SpotSession(adapter)), SpotSession(adapter))
    ELSE drv

Call(wait) ==
    /\ pc \in {"idle", "done"}
    /\ callsLeft > 0
    /\ now' = now + wait
    /\ callStart' = now + wait
    /\ callsLeft' = callsLeft - 1
    /\ pc' = "is_cache_fresh"
    /\ branch' = <<>>
    /\ tried' = <<>>
    /\ writes' = <<>>
    /\ fresh' = FALSE
    /\ freshAt' = now + wait
    /\ mcxGate' = None
    /\ result' = NoResult
    /\ via' = "none"
    /\ cacheAtCall' = cacheFile
    /\ drivers' = NoDrivers
    /\ UNCHANGED <<ticksLeft, cacheFile>>

\* the freshness check made, and the routing entered whatever it returned
CheckFresh_goes_on ==
    /\ pc = "is_cache_fresh"
    /\ fresh' = is_cache_fresh(cacheFile, now)
    /\ freshAt' = now
    /\ pc' = "is_dead_zone"
    /\ UNCHANGED <<now, ticksLeft, cacheFile, cacheAtCall, callStart, branch, tried, writes,
                   mcxGate, result, via, callsLeft, cycVars, drivers, calc>>

\* line 461: if is_cache_fresh(): return load_cache()
CheckFresh ==
    /\ pc = "is_cache_fresh"
    /\ fresh' = is_cache_fresh(cacheFile, now)
    /\ freshAt' = now
    /\ pc' = IF is_cache_fresh(cacheFile, now) THEN "load_cache" ELSE "is_dead_zone"
    /\ UNCHANGED <<now, ticksLeft, cacheFile, cacheAtCall, callStart, branch, tried, writes,
                   mcxGate, result, via, callsLeft, cycVars, drivers, calc>>

\* CASE 1 without its return: the if-chain goes on after the dead zone
CheckDeadZone_no_return ==
    /\ pc = "is_dead_zone"
    /\ branch' = IF is_dead_zone(now) THEN Entered("DEAD_ZONE") ELSE branch
    /\ pc' = "is_ibja_requests_only_window"
    /\ UNCHANGED <<now, ticksLeft, cacheFile, cacheAtCall, callStart, tried, writes, fresh,
                   freshAt, mcxGate, result, via, callsLeft, cycVars, drivers, calc>>

\* CASE 1 trying the primary source before it returns the cache
CheckDeadZone_tries_primary ==
    /\ pc = "is_dead_zone"
    /\ IF is_dead_zone(now)
       THEN branch' = Entered("DEAD_ZONE") /\ pc' = "primary_requests"
       ELSE branch' = branch /\ pc' = "is_ibja_requests_only_window"
    /\ UNCHANGED <<now, ticksLeft, cacheFile, cacheAtCall, callStart, tried, writes, fresh,
                   freshAt, mcxGate, result, via, callsLeft, cycVars, drivers, calc>>

\* line 468: CASE 1
CheckDeadZone ==
    /\ pc = "is_dead_zone"
    /\ IF is_dead_zone(now)
       THEN branch' = Entered("DEAD_ZONE") /\ pc' = "load_cache"
       ELSE branch' = branch /\ pc' = "is_ibja_requests_only_window"
    /\ UNCHANGED <<now, ticksLeft, cacheFile, cacheAtCall, callStart, tried, writes, fresh,
                   freshAt, mcxGate, result, via, callsLeft, cycVars, drivers, calc>>

\* line 473: CASE 2
CheckRequestsOnly ==
    /\ pc = "is_ibja_requests_only_window"
    /\ IF is_ibja_requests_only_window(now)
       THEN branch' = Entered("PRIMARY_ONLY") /\ pc' = "primary_requests"
       ELSE branch' = branch /\ pc' = "is_ibja_active_window"
    /\ UNCHANGED <<now, ticksLeft, cacheFile, cacheAtCall, callStart, tried, writes, fresh,
                   freshAt, mcxGate, result, via, callsLeft, cycVars, drivers, calc>>

\* line 485: CASE 3
CheckIbjaActive ==
    /\ pc = "is_ibja_active_window"
    /\ IF is_ibja_active_window(now)
       THEN branch' = Entered("CASCADE") /\ pc' = "cascade_requests"
       ELSE branch' = branch /\ pc' = "is_mcx_active_window"
    /\ UNCHANGED <<now, ticksLeft, cacheFile, cacheAtCall, callStart, tried, writes, fresh,
                   freshAt, mcxGate, result, via, callsLeft, cycVars, drivers, calc>>

\* line 514: CASE 4, and CASE 5 when it does not hold
CheckMcxActive ==
    /\ pc = "is_mcx_active_window"
    /\ IF is_mcx_active_window(now)
       THEN branch' = Entered("TERTIARY_ONLY") /\ pc' = "tertiary_mcx"
       ELSE branch' = Entered("OFFLINE") /\ pc' = "load_cache"
    /\ UNCHANGED <<now, ticksLeft, cacheFile, cacheAtCall, callStart, tried, writes, fresh,
                   freshAt, mcxGate, result, via, callsLeft, cycVars, drivers, calc>>

\* an attempt that saves a result and goes on to the next source
Attempt_no_return(at, adapter, r, next) ==
    /\ pc = at
    /\ tried' = Tried(adapter, r)
    /\ drivers' = AfterAdapter(drivers, adapter)
    /\ IF r # None
       THEN /\ cacheFile' = save_cache(Get(r))
            /\ writes' = Append(writes, [file |-> CACHE_FILE,
                                         content |-> save_cache(Get(r))])
            /\ result' = Get(r)
            /\ via' = "source"
       ELSE UNCHANGED <<cacheFile, writes, result, via>>
    /\ pc' = next
    /\ UNCHANGED <<now, ticksLeft, cacheAtCall, callStart, branch, fresh, freshAt,
                   mcxGate, callsLeft, cycVars, calc>>

\* the record saved with the timestamp of the start of the week
Attempt_backdated(at, adapter, r, next) ==
    /\ pc = at
    /\ tried' = Tried(adapter, r)
    /\ drivers' = AfterAdapter(drivers, adapter)
    /\ IF r # None
       THEN /\ cacheFile' = save_cache(DictSet(Get(r), "timestamp", Stamp(0)))
            /\ writes' = Append(writes, [file |-> CACHE_FILE,
                                         content |-> save_cache(DictSet(Get(r), "timestamp", Stamp(0)))])
            /\ result' = Get(r)
            /\ via' = "source"
            /\ pc' = "done"
       ELSE /\ pc' = next
            /\ UNCHANGED <<cacheFile, writes, result, via>>
    /\ UNCHANGED <<now, ticksLeft, cacheAtCall, callStart, branch, fresh, freshAt,
                   mcxGate, callsLeft, cycVars, calc>>

\* a successful result returned without save_cache
Attempt_without_save(at, adapter, r, next) ==
    /\ pc = at
    /\ tried' = Tried(adapter, r)
    /\ drivers' = AfterAdapter(drivers, adapter)
    /\ IF r # None
       THEN /\ result' = Get(r)
            /\ via' = "source"
            /\ pc' = "done"
       ELSE /\ pc' = next
            /\ UNCHANGED <<result, via>>
    /\ UNCHANGED <<now, ticksLeft, cacheFile, writes, cacheAtCall, callStart,
                   branch, fresh, freshAt, mcxGate, callsLeft, cycVars, calc>>

\* result = <adapter>(); if result: save_cache(result); return result
\* and otherwise go on at `next`
Attempt(at, adapter, r, next) ==
    /\ pc = at
    /\ tried' = Tried(adapter, r)
    /\ drivers' = AfterAdapter(drivers, adapter)
    /\ IF r # None
       THEN /\ cacheFile' = save_cache(Get(r))
            /\ writes' = Append(writes, [file |-> CACHE_FILE,
                                         content |-> save_cache(Get(r))])
            /\ result' = Get(r)
            /\ via' = "source"
            /\ pc' = "done"
       ELSE /\ pc' = next
            /\ UNCHANGED <<cacheFile, writes, result, via>>
    /\ UNCHANGED <<now, ticksLeft, cacheAtCall, callStart, branch, fresh, freshAt,
                   mcxGate, callsLeft, cycVars, calc>>

\* lines 476-482
PrimaryRequests ==
    \E page \in IbjaPages :
        Attempt("primary_requests", "requests",
                scrape_ibja_with_requests(page, now), "load_cache")

\* lines 489-492
CascadeRequests ==
    \E page \in IbjaPages :
        Attempt("cascade_requests", "requests",
                scrape_ibja_with_requests(page, now), "cascade_selenium")

\* lines 496-499
CascadeSelenium ==
    \E page \in IbjaPages :
        Attempt("cascade_selenium", "selenium",
                scrape_ibja_with_selenium(page, now), "cascade_mcx_gate")

\* the cascade going on to MCX whatever is_mcx_active_window returns
CascadeMcxGate_ignored ==
    /\ pc = "cascade_mcx_gate"
    /\ mcxGate' = Some(is_mcx_active_window(now))
    /\ pc' = "cascade_mcx"
    /\ UNCHANGED <<now, ticksLeft, cacheFile, cacheAtCall, callStart, branch, tried, writes,
                   fresh, freshAt, result, via, callsLeft, cycVars, drivers, calc>>

\* line 502: if is_mcx_active_window()
CascadeMcxGate ==
    /\ pc = "cascade_mcx_gate"
    /\ mcxGate' = Some(is_mcx_active_window(now))
    /\ pc' = IF is_mcx_active_window(now) THEN "cascade_mcx" ELSE "load_cache"
    /\ UNCHANGED <<now, ticksLeft, cacheFile, cacheAtCall, callStart, branch, tried, writes,
                   fresh, freshAt, result, via, callsLeft, cycVars, drivers, calc>>

\* lines 504-507
CascadeMcx ==
    \E page \in McxPages :
        Attempt("cascade_mcx", "mcx", scrape_mcx_official(page, now), "load_cache")

\* lines 517-523
TertiaryMcx ==
    \E page \in McxPages :
        Attempt("tertiary_mcx", "mcx", scrape_mcx_official(page, now), "load_cache")

\* returning the cache and writing the annotated record back to the file
ReturnCache_writes_back ==
    /\ pc = "load_cache"
    /\ result' = load_cache(cacheFile, now)
    /\ cacheFile' = IF cacheFile.kind = "json"
                    THEN Json(load_cache(cacheFile, now))
                    ELSE cacheFile
    /\ via' = "load_cache"
    /\ pc' = "done"
    /\ UNCHANGED <<now, ticksLeft, cacheAtCall, callStart, branch, tried, writes,
                   fresh, freshAt, mcxGate, callsLeft, cycVars, drivers, calc>>

\* every `return load_cache()` of get_mcx_spot_prices
ReturnCache ==
    /\ pc = "load_cache"
    /\ result' = load_cache(cacheFile, now)
    /\ via' = "load_cache"
    /\ pc' = "done"
    /\ UNCHANGED <<now, ticksLeft, cacheFile, cacheAtCall, callStart, branch, tried, writes,
                   fresh, freshAt, mcxGate, callsLeft, cycVars, drivers, calc>>

\* the clock advances by a minute while a call is in progress
Tick ==
    /\ pc \notin {"idle", "done"} \/ cyc \notin {"off", "ready", "done", "raised"}
    /\ ticksLeft > 0
    /\ now' = now + 1
    /\ ticksLeft' = ticksLeft - 1
    /\ UNCHANGED <<writes, spotVars, cycVars, drivers, calc>>

----------------------------------------------------------------------------
(* scrape_all_etfs_parallel, one action per call it makes and per step of  *)
(* each pool worker.  File writes are taken to succeed.                    *)

\* ETFs per batch: 5 in the source, scaled down with NumEtfs so that the
\* model has several batches in flight
BATCH_SIZE == 1
MAX_WORKERS == 4

\* [etf_list[i:i + size] for i in range(0, len(etf_list), size)]
Batches(etf_list, size) ==
    [b \in 1..((Len(etf_list) + size - 1) \div size) |->
        SubSeq(etf_list, (b - 1) * size + 1, Min(b * size, Len(etf_list)))]

\* batches = [ETF_LIST[i:i + BATCH_SIZE] for i in range(0, len(ETF_LIST), BATCH_SIZE)]
NumBatches == Len(Batches(ETF_LIST, BATCH_SIZE))
Batch(b) == Batches(ETF_LIST, BATCH_SIZE)[b]

Symbols == {ETF_LIST[i].symbol : i \in 1..Len(ETF_LIST)}

\* run_scraper.main goes from step 1 to step 2, and
\* line 758: mcx_prices = get_mcx_spot_prices()
CycleStart ==
    /\ cyc = "ready"
    /\ Call(0)
    /\ mcx_data' = [returned |-> result, via |-> via, writes |-> writes]
    /\ cyc' = "get_mcx_spot_prices"
    /\ UNCHANGED <<sites, calc, nse_pages, staticFile, mcx_prices, static_cache, staticReadAt,
                   needs_static_refresh, refreshReadAt, static_idx,
                   static_data_list, wpc, wresults, fetched, merged,
                   all_results, success_count, snapshot>>

\* lines 758-768: the call has returned
CycleSpotReturned ==
    /\ cyc = "get_mcx_spot_prices"
    /\ pc = "done"
    /\ mcx_prices' = result
    /\ cyc' = "load_static_cache"
    /\ UNCHANGED <<now, ticksLeft, sites, mcx_data, calc, nse_pages, drivers, writes, spotVars, staticFile, static_cache,
                   staticReadAt, needs_static_refresh, refreshReadAt,
                   static_idx, static_data_list, wpc, wresults, fetched,
                   merged, all_results, success_count, snapshot>>

\* line 772: static_cache = load_static_cache()
LoadStatic ==
    /\ cyc = "load_static_cache"
    /\ static_cache' = load_static_cache(staticFile, now)
    /\ staticReadAt' = now
    /\ cyc' = "should_refresh_static_cache"
    /\ UNCHANGED <<now, ticksLeft, sites, mcx_data, calc, nse_pages, drivers, writes, spotVars, staticFile, mcx_prices,
                   needs_static_refresh, refreshReadAt, static_idx,
                   static_data_list, wpc, wresults, fetched, merged,
                   all_results, success_count, snapshot>>

\* lines 773, 776: needs_static_refresh = should_refresh_static_cache(...)
CheckRefresh ==
    /\ cyc = "should_refresh_static_cache"
    /\ needs_static_refresh'
           = should_refresh_static_cache(static_cache, staticFile, now)
    /\ refreshReadAt' = now
    /\ cyc' = IF should_refresh_static_cache(static_cache, staticFile, now)
              THEN "create_optimized_driver"
              ELSE "dynamic"
    /\ UNCHANGED <<now, ticksLeft, sites, mcx_data, calc, nse_pages, drivers, writes, spotVars, staticFile, mcx_prices,
                   static_cache, staticReadAt, static_idx, static_data_list,
                   wpc, wresults, fetched, merged, all_results,
                   success_count, snapshot>>

\* lines 778-779: driver = create_optimized_driver() stands outside the try;
\* when it raises, the exception leaves scrape_all_etfs_parallel
CreateStaticDriver ==
    /\ cyc = "create_optimized_driver"
    /\ \E ok \in sites.driver :
           /\ cyc' = IF ok THEN "scrape_static_fields" ELSE "raised"
           /\ drivers' = IF ok THEN Acquire(drivers, StaticSession)
                         ELSE drivers
    /\ static_data_list' = <<>>
    /\ static_idx' = 1
    /\ UNCHANGED <<now, ticksLeft, sites, mcx_data, calc, nse_pages, writes, spotVars, staticFile, mcx_prices,
                   static_cache, staticReadAt, needs_static_refresh,
                   refreshReadAt, wpc, wresults, fetched, merged,
                   all_results, success_count, snapshot>>

\* lines 781-785: one round of the loop over ETF_LIST
StaticScrape ==
    /\ cyc = "scrape_static_fields"
    /\ static_idx <= Len(ETF_LIST)
    /\ \E page \in sites.static :
           LET static == scrape_static_fields(page, ETF_LIST[static_idx].symbol)
           IN  static_data_list' = IF static # None
                                   THEN Append(static_data_list, Get(static))
                                   ELSE static_data_list
    /\ static_idx' = static_idx + 1
    /\ UNCHANGED <<now, ticksLeft, sites, mcx_data, calc, nse_pages, drivers, writes, spotVars, staticFile, cyc,
                   mcx_prices, static_cache, staticReadAt,
                   needs_static_refresh, refreshReadAt, wpc, wresults,
                   fetched, merged, all_results, success_count, snapshot>>

\* lines 786-792: save_static_cache stamps the entries in place, so the
\* entries of the new static_cache carry the timestamp too; the finally
\* clause quits the driver
SaveStatic ==
    /\ cyc = "scrape_static_fields"
    /\ static_idx > Len(ETF_LIST)
    /\ IF static_data_list # <<>>
       THEN /\ staticFile' = save_static_cache(static_data_list, now)
            /\ writes' = Append(writes,
                                [file |-> STATIC_CACHE_FILE_DATA,
                                 content |-> save_static_cache(static_data_list, now)])
            /\ static_data_list' = Stamped(static_data_list, now)
            /\ static_cache'
                   = [sym \in {static_data_list[i].symbol :
                                   i \in 1..Len(static_data_list)} |->
                         LET i == CHOOSE i \in 1..Len(static_data_list) :
                                      static_data_list[i].symbol = sym
                         IN  Stamped(static_data_list, now)[i]]
       ELSE UNCHANGED <<staticFile, writes, static_data_list, static_cache>>
    /\ drivers' = Quit(drivers, StaticSession)
    /\ cyc' = "dynamic"
    /\ UNCHANGED <<now, ticksLeft, sites, mcx_data, calc, nse_pages, spotVars, mcx_prices, staticReadAt,
                   needs_static_refresh, refreshReadAt, static_idx, wpc,
                   wresults, fetched, merged, all_results, success_count,
                   snapshot>>

\* the pool worker that runs scrape_etf_batch_parallel(Batch(b), b) starts:
\* tasks leave the queue in submission order, at most MAX_WORKERS run, and
\* when create_optimized_driver raises the worker returns []
WorkerStart(b) ==
    /\ cyc = "dynamic"
    /\ wpc[b] = "queued"
    /\ \A a \in 1..(b - 1) : wpc[a] # "queued"
    /\ Cardinality({a \in 1..NumBatches : wpc[a] \in {"scrape_etf_fast", "amc"}})
           < MAX_WORKERS
    /\ \E ok \in sites.driver :
           /\ wpc' = [wpc EXCEPT ![b] = IF ok THEN "scrape_etf_fast"
                                        ELSE "returned"]
           /\ drivers' = IF ok THEN Acquire(drivers, BatchSession(b))
                         ELSE drivers
    /\ UNCHANGED <<now, ticksLeft, sites, mcx_data, calc, nse_pages, writes, spotVars,
                   staticFile, cyc, mcx_prices, static_cache, staticReadAt,
                   needs_static_refresh, refreshReadAt, static_idx,
                   static_data_list, wresults, fetched, merged, all_results,
                   success_count, snapshot>>

\* lines 697-702
ErrorResult(etf, t) ==
    DictMerge(etf, [status |-> "error", dataAge |-> "error", lastUpdate |-> t])

\* the attempt on which scrape_etf_fast goes past its price check, if any
FinalPage(pages) ==
    LET good == {i \in 1..(max_retries + 1) :
                    pages[i].kind = "page" /\ pages[i].price > 0}
    IN  IF good = {} THEN None
        ELSE Some(pages[CHOOSE i \in good : \A j \in good : i <= j])

\* lines 522-547: with no iNAV on the quote page every symbol but GOLD360
\* (fetched with requests) has create_optimized_driver called for it
OpensAmcDriver(pages, symbol) ==
    /\ FinalPage(pages) # None
    /\ Get(FinalPage(pages)).inav = 0
    /\ symbol # "GOLD360"

\* a worker that empties the results list of the first batch's worker
Scraped_clears_results(b, pages, amc, drv) ==
    LET etf == Batch(b)[Len(wresults[b]) + 1]
        nse_data == scrape_etf_fast(pages, amc, etf.symbol,
                                    GetOr(etf, "isin", ""), 0, now)
        last == Len(wresults[b]) + 1 = Len(Batch(b))
    IN  /\ wresults' = [[wresults EXCEPT ![b] = Append(@, ErrorResult(etf, now))]
                           EXCEPT ![1] = IF b = 1 THEN @ ELSE <<>>]
        /\ fetched' = [fetched EXCEPT ![etf.symbol] = nse_data]
        /\ wpc' = [wpc EXCEPT ![b] = IF last THEN "returned"
                                     ELSE "scrape_etf_fast"]
        /\ nse_pages' = [nse_pages EXCEPT ![b] = None]
        /\ drivers' = IF last THEN Quit(drv, BatchSession(b)) ELSE drv

\* lines 692-718: scrape_etf_fast has returned for the next instrument of
\* batch b; after the last one the worker returns and its finally clause
\* quits its driver
Scraped(b, pages, amc, drv) ==
    LET etf == Batch(b)[Len(wresults[b]) + 1]
        nse_data == scrape_etf_fast(pages, amc, etf.symbol,
                                    GetOr(etf, "isin", ""), 0, now)
        etf_data == IF nse_data # None /\ GetOr(Get(nse_data), "price", 0) > 0
                    THEN DictMerge(etf, Get(nse_data))
                    ELSE ErrorResult(etf, now)
        last == Len(wresults[b]) + 1 = Len(Batch(b))
    IN  /\ wresults' = [wresults EXCEPT ![b] = Append(@, etf_data)]
        /\ fetched' = [fetched EXCEPT ![etf.symbol] = nse_data]
        /\ wpc' = [wpc EXCEPT ![b] = IF last THEN "returned"
                                     ELSE "scrape_etf_fast"]
        /\ nse_pages' = [nse_pages EXCEPT ![b] = None]
        /\ drivers' = IF last THEN Quit(drv, BatchSession(b)) ELSE drv

\* lines 691-707: one round of the worker's loop over its batch, up to the
\* return of scrape_etf_fast or to the creation of the AMC driver inside it
\* (when create_optimized_driver raises there, the iNAV stays 0)
WorkerScrape(b) ==
    /\ cyc = "dynamic"
    /\ wpc[b] = "scrape_etf_fast"
    /\ LET etf == Batch(b)[Len(wresults[b]) + 1]
       IN  \E pages \in Attempts(sites.nse) :
               IF OpensAmcDriver(pages, etf.symbol)
               THEN \E ok \in sites.driver :
                        IF ok
                        THEN /\ drivers' = Acquire(drivers, AmcSession(b))
                             /\ nse_pages' = [nse_pages EXCEPT ![b] = Some(pages)]
                             /\ wpc' = [wpc EXCEPT ![b] = "amc"]
                             /\ UNCHANGED <<wresults, fetched>>
                        ELSE Scraped(b, pages, 0, drivers)
               ELSE \E amc \in AmcYields(etf.symbol) :
                        Scraped(b, pages, amc, drivers)
    /\ UNCHANGED <<now, ticksLeft, sites, mcx_data, calc, writes, spotVars, staticFile,
                   cyc, mcx_prices, static_cache, staticReadAt,
                   needs_static_refresh, refreshReadAt, static_idx,
                   static_data_list, merged, all_results, success_count,
                   snapshot>>

\* lines 536-553: the AMC page is read with the AMC driver, the finally
\* clause quits it, and scrape_etf_fast goes on to its result
WorkerAmc(b) ==
    /\ cyc = "dynamic"
    /\ wpc[b] = "amc"
    /\ \E amc \in AmcYields(Batch(b)[Len(wresults[b]) + 1].symbol) :
           Scraped(b, Get(nse_pages[b]), amc, Quit(drivers, AmcSession(b)))
    /\ UNCHANGED <<now, ticksLeft, sites, mcx_data, calc, writes, spotVars, staticFile,
                   cyc, mcx_prices, static_cache, staticReadAt,
                   needs_static_refresh, refreshReadAt, static_idx,
                   static_data_list, merged, all_results, success_count,
                   snapshot>>

\* lines 812-834: the combined record of one batch result with a price
Combined(etf_data, static, mcx_gold, mcx_silver, t) ==
    LET price == GetOr(etf_data, "price", 0)
        prev_close == GetOr(static, "prevClose", 0)
        inav == GetOr(etf_data, "inav", 0)
        change == IF prev_close > 0 THEN price - prev_close ELSE 0
        change_percent == IF prev_close > 0 THEN Percent(change, prev_close)
                          ELSE 0
        discount == IF inav > 0 THEN Percent(price - inav, inav) ELSE 0
    IN  DictMerge(DictMerge(etf_data, static),
                  [change |-> change,
                   changePercent |-> change_percent,
                   discount |-> discount,
                   gold_per_gram |-> mcx_gold,
                   silver_per_gram |-> mcx_silver,
                   status |-> "live",
                   lastUpdate |-> t,
                   dataAge |-> "live"])

\* lines 811-836 over batch_results, from item i on
RECURSIVE MergeResults(_, _, _, _, _, _, _)
MergeResults(batch_results, i, acc, static, mcx_gold, mcx_silver, t) ==
    IF i > Len(batch_results)
    THEN acc
    ELSE LET etf_data == batch_results[i]
             row == GetOr(static, etf_data.symbol, EmptyDict)
         IN  MergeResults(batch_results, i + 1,
                          IF GetOr(etf_data, "price", 0) > 0
                          THEN Append(acc, Combined(etf_data, row, mcx_gold,
                                                    mcx_silver, t))
                          ELSE acc,
                          static, mcx_gold, mcx_silver, t)

\* the merge counting every instrument of the batch, fetched or not
MergeBatch_counts_batch(b) ==
    /\ cyc = "dynamic"
    /\ wpc[b] = "returned"
    /\ \A i \in 1..Len(merged) : merged[i] # b
    /\ merged' = Append(merged, b)
    /\ all_results' = MergeResults(wresults[b], 1, all_results, static_cache,
                                   GetOr(mcx_prices, "gold_per_gram", 0),
                                   GetOr(mcx_prices, "silver_per_gram", 0), now)
    /\ success_count' = success_count + Len(Batch(b))
    /\ UNCHANGED <<now, ticksLeft, sites, mcx_data, calc, nse_pages, drivers, writes, spotVars, staticFile, cyc,
                   mcx_prices, static_cache, staticReadAt,
                   needs_static_refresh, refreshReadAt, static_idx,
                   static_data_list, wpc, wresults, fetched, snapshot>>

\* lines 809-836: as_completed yields a finished future and the main thread
\* merges its results
MergeBatch(b) ==
    /\ cyc = "dynamic"
    /\ wpc[b] = "returned"
    /\ \A i \in 1..Len(merged) : merged[i] # b
    /\ merged' = Append(merged, b)
    /\ all_results' = MergeResults(wresults[b], 1, all_results, static_cache,
                                   GetOr(mcx_prices, "gold_per_gram", 0),
                                   GetOr(mcx_prices, "silver_per_gram", 0), now)
    /\ success_count'
           = success_count
             + Cardinality({i \in 1..Len(wresults[b]) :
                               GetOr(wresults[b][i], "price", 0) > 0})
    /\ UNCHANGED <<now, ticksLeft, sites, mcx_data, calc, nse_pages, drivers, writes, spotVars, staticFile, cyc,
                   mcx_prices, static_cache, staticReadAt,
                   needs_static_refresh, refreshReadAt, static_idx,
                   static_data_list, wpc, wresults, fetched, snapshot>>

\* [e for e in all_results if e['type'] == type]
RECURSIVE OfType(_, _)
OfType(results, type) ==
    IF results = <<>>
    THEN <<>>
    ELSE IF Head(results).type = type
         THEN <<Head(results)>> \o OfType(Tail(results), type)
         ELSE OfType(Tail(results), type)

\* lines 839-857: every future is consumed; the derived fields, the snapshot
Finish ==
    /\ cyc = "dynamic"
    /\ Len(merged) = NumBatches
    /\ LET mcx_gold == GetOr(mcx_prices, "gold_per_gram", 0)
           mcx_silver == GetOr(mcx_prices, "silver_per_gram", 0)
           final == [i \in 1..Len(all_results) |->
                        calculate_mcx_fields(all_results[i], mcx_gold, mcx_silver)]
       IN  /\ all_results' = final
           /\ snapshot' = [gold_etfs |-> OfType(final, "gold"),
                           silver_etfs |-> OfType(final, "silver"),
                           mcx_spot_prices |-> mcx_prices,
                           timestamp |-> now,
                           success_count |-> success_count,
                           total_count |-> Len(ETF_LIST)]
    /\ cyc' = "done"
    /\ UNCHANGED <<now, ticksLeft, sites, mcx_data, calc, nse_pages, drivers, writes, spotVars, staticFile, mcx_prices,
                   static_cache, staticReadAt, needs_static_refresh,
                   refreshReadAt, static_idx, static_data_list, wpc, wresults,
                   fetched, merged, success_count>>


----------------------------------------------------------------------------
(* Initial states: the clock and the spot cache file before the first      *)
(* call.  Four families of inputs, so that every instant of a week, every  *)
(* cache age, every window boundary and every sequence of calls is covered *)
(* without multiplying them.                                               *)

\* what save_cache stored at instant t after a successful MCX scrape
SavedAt(t) == save_cache(Rates(614800, 7419, "MCX_Spot", t)).data

\* an age, in minutes, at which is_cache_fresh no longer holds
StaleAge == CACHE_VALIDITY_HOURS * 60 + 1

\* one instant inside each window, on a weekday and on a Saturday
SampleInstants ==
    {At(1, 3, 0), At(1, 9, 0), At(1, 12, 35), At(1, 15, 0), At(1, 18, 0),
     At(5, 15, 0)}

\* the instants where a window opens or closes, on a Tuesday, a Friday, a
\* Saturday and a Sunday (24:00 is the change of weekday)
Boundaries ==
    {At(d, h, m) : d \in {1, 4, 5, 6},
                   h \in {7, 12, 17, 22, 24}, m \in {0, 30, 40}}
    \cap ({At(d, 12, m) : d \in 0..6, m \in {30, 40}}
          \cup {At(d, h, 0) : d \in 0..6, h \in {7, 17, 22, 24}})

Waits == {1, 117, 118}

InitWith(t, file, ticks, calls) ==
    /\ now = t
    /\ cacheFile = file
    /\ cacheAtCall = file
    /\ ticksLeft = ticks
    /\ callsLeft = calls
    /\ pc = "idle"
    /\ callStart = t
    /\ branch = <<>>
    /\ tried = <<>>
    /\ writes = <<>>
    /\ fresh = FALSE
    /\ freshAt = t
    /\ mcxGate = None
    /\ result = NoResult
    /\ via = "none"
    /\ drivers = NoDrivers

\* the sites and the driver may fail, or all work
AnySites == [nse |-> NsePages, static |-> StaticPages, driver |-> BOOLEAN]
GoodSites == [nse |-> {GoodQuote}, static |-> {GoodQuote}, driver |-> {TRUE}]

\* scrape_all_etfs_parallel has not started; c is "off" where the behaviour
\* holds calls of get_mcx_spot_prices only
CycleIdleWith(c, sfile, env, batches) ==
    /\ cyc = c
    /\ sites = env
    /\ staticFile = sfile
    /\ mcx_prices = NoResult
    /\ static_cache = EmptyDict
    /\ staticReadAt = 0
    /\ needs_static_refresh = FALSE
    /\ refreshReadAt = 0
    /\ static_idx = 1
    /\ static_data_list = <<>>
    /\ wpc = [b \in 1..batches |-> "queued"]
    /\ wresults = [b \in 1..batches |-> <<>>]
    /\ fetched = [sym \in Symbols |-> None]
    /\ merged = <<>>
    /\ all_results = <<>>
    /\ success_count = 0
    /\ snapshot = NoResult
    /\ nse_pages = [b \in 1..batches |-> None]
    /\ mcx_data = [returned |-> NoResult, via |-> "none", writes |-> <<>>]

CycleIdle(c, sfile, env) == CycleIdleWith(c, sfile, env, NumBatches)

\* every (weekday, hour, minute), with a stale cache
InitRoute ==
    \E t \in 0..(MinutesPerWeek - 1) :
        InitWith(t, Json(SavedAt(t - StaleAge)), 0, 1) /\ CycleIdle("off", Absent, AnySites)

\* every cache age up to MaxAge, and every unreadable cache
InitAges ==
    \E t \in SampleInstants :
        \E file \in {Json(SavedAt(t - a)) : a \in 0..MaxAge}
                     \cup {Absent, Corrupt,
                           Json(DictSet(SavedAt(t), "timestamp", BadStamp)),
                           Json(DictPop(SavedAt(t), "timestamp"))} :
            InitWith(t, file, 0, 1) /\ CycleIdle("off", Absent, AnySites)

\* a call that starts up to MaxTicks minutes before a window boundary
InitBoundary ==
    \E b \in Boundaries : \E k \in 0..MaxTicks :
        \E file \in {Absent, Json(SavedAt(b - k - StaleAge)),
                      Json(SavedAt(b - k - StaleAge + MaxTicks + 2))} :
            InitWith(b - k, file, MaxTicks, 1) /\ CycleIdle("off", Absent, AnySites)

\* several calls in a row
InitCalls ==
    \E t \in SampleInstants :
        \E file \in {Absent, Json(SavedAt(t - StaleAge)), Json(SavedAt(t - 1))} :
            \E ticks \in {0, 1} :
                InitWith(t, file, ticks, MaxCalls) /\ CycleIdle("off", Absent, AnySites)

\* no pure function is applied on its own
NoCalc == [op |-> "none"]

Init == (InitRoute \/ InitAges \/ InitBoundary \/ InitCalls) /\ calc = NoCalc

\* the first call, or a later one some time after the previous one returned
StartCall ==
    /\ cyc \in {"off", "ready"}
    /\ \E wait \in (IF pc = "idle" THEN {0} ELSE Waits) : Call(wait)
    /\ UNCHANGED <<cycVars, calc>>

Next ==
    \/ StartCall
    \/ CheckFresh
    \/ CheckDeadZone
    \/ CheckRequestsOnly
    \/ CheckIbjaActive
    \/ CheckMcxActive
    \/ PrimaryRequests
    \/ CascadeRequests
    \/ CascadeSelenium
    \/ CascadeMcxGate
    \/ CascadeMcx
    \/ TertiaryMcx
    \/ ReturnCache
    \/ Tick

Spec == Init /\ [][Next]_vars

----------------------------------------------------------------------------
(* One run of run_scraper.main: an optional call of get_mcx_spot_prices    *)
(* (step 1), then scrape_all_etfs_parallel (step 2).                       *)

\* largest age, in minutes, of a static cache file present at the start
MaxStaticAge == 62

\* what scrape_static_fields returned for every instrument, as
\* save_static_cache stored it at instant t
StaticEntries ==
    [i \in 1..Len(ETF_LIST) |->
        Get(scrape_static_fields(
                IF i = 1 THEN GoodQuote ELSE Quote(5520, 0, 0, ""),
                ETF_LIST[i].symbol))]

StaticSavedAt(t) == save_static_cache(StaticEntries, t)

\* static cache files the code does not read as a list of stamped rows
OddStaticFiles(t) ==
    {Absent, Corrupt, Csv(<<>>),
     Csv(StaticEntries),
     Csv([i \in 1..Len(StaticEntries) |->
             DictSet(StaticEntries[i], "timestamp", BadStamp)]),
     save_static_cache(SubSeq(StaticEntries, 1, 1), t)}

\* every age of the static cache file up to MaxStaticAge, in the dead zone,
\* with sites that work; the clock advances during the run where the file is
\* about to expire
InitStaticAges ==
    \E a \in 0..MaxStaticAge :
        \E ticks \in (IF STATIC_CACHE_TTL - 60 <= a * 60 /\ a * 60 <= STATIC_CACHE_TTL
                       THEN 0..MaxTicks ELSE {0}) :
            /\ InitWith(At(1, 12, 35), Absent, ticks, 1)
            /\ CycleIdle("ready", StaticSavedAt(At(1, 12, 35) - a), GoodSites)

\* the spot call of the cycle in the windows with sources, after an optional
\* call of step 1, with a fresh static cache
InitCycleSpot ==
    \E t \in {At(1, 3, 0), At(1, 9, 0), At(1, 18, 0)} :
        \E file \in {Absent, Json(SavedAt(t - StaleAge)), Json(SavedAt(t - 10))} :
            \E calls \in 1..MaxCalls : \E ticks \in (IF calls = 1 THEN {0, 1} ELSE {0}) :
                /\ InitWith(t, file, ticks, calls)
                /\ CycleIdle("ready", StaticSavedAt(t - 10), GoodSites)

\* static cache files of every kind and sites that may fail, in the dead zone
InitCycleStatic ==
    \E sfile \in OddStaticFiles(At(1, 12, 35) - 10)
                  \cup {StaticSavedAt(At(1, 12, 35) - a) : a \in {10, 61}} :
        /\ InitWith(At(1, 12, 35), Json(SavedAt(At(1, 12, 35) - 10)), 0, 1)
        /\ CycleIdle("ready", sfile, AnySites)

\* both caches written by the same earlier run, a minutes ago
InitSameAge ==
    \E a \in {30, 61, 117, 121} :
        /\ InitWith(At(1, 12, 35), Json(SavedAt(At(1, 12, 35) - a)), 0, 1)
        /\ CycleIdle("ready", StaticSavedAt(At(1, 12, 35) - a), GoodSites)

\* the quote pages show no iNAV and every driver can be created
AmcSites ==
    [nse |-> {Quote(5520, 0, 0, "")}, static |-> {GoodQuote}, driver |-> {TRUE}]

\* a run at 18:00 with no cache file of either kind, or with both of them
\* stale, so that every operation that drives a browser can take place
InitSessions ==
    \E stale \in BOOLEAN :
        /\ InitWith(At(1, 18, 0),
                    IF stale THEN Json(SavedAt(At(1, 18, 0) - StaleAge))
                    ELSE Absent,
                    0, 1)
        /\ CycleIdle("ready",
                     IF stale THEN StaticSavedAt(At(1, 18, 0) - StaleAge)
                     ELSE Absent,
                     AmcSites)

\* the quote pages may fail for the static fetch, all else works
FlakyStaticSites ==
    [nse |-> {GoodQuote}, static |-> {PageTimeout, GoodQuote}, driver |-> {TRUE}]

\* a static cache file that reaches its TTL while the cycle reads it, or is
\* past it, with static fetches that may fail
InitStaticExpiring ==
    \E a \in {STATIC_CACHE_TTL \div 60, STATIC_CACHE_TTL \div 60 + 1} :
        /\ InitWith(At(1, 12, 35), Absent, 1, 1)
        /\ CycleIdle("ready", StaticSavedAt(At(1, 12, 35) - a), FlakyStaticSites)

InitRun ==
    /\ \/ InitStaticAges
       \/ InitStaticExpiring
       \/ InitCycleSpot
       \/ InitCycleStatic
       \/ InitSameAge
       \/ InitSessions
    /\ calc = NoCalc

NextCycle ==
    \/ Next
    \/ CycleStart
    \/ CycleSpotReturned
    \/ LoadStatic
    \/ CheckRefresh
    \/ CreateStaticDriver
    \/ StaticScrape
    \/ SaveStatic
    \/ \E b \in 1..NumBatches : WorkerStart(b)
    \/ \E b \in 1..NumBatches : WorkerScrape(b)
    \/ \E b \in 1..NumBatches : WorkerAmc(b)
    \/ \E b \in 1..NumBatches : MergeBatch(b)
    \/ Finish

SpecCycle == InitRun /\ [][NextCycle]_vars

----------------------------------------------------------------------------
(* The derived metrics as pure functions: the inputs are drawn at the      *)
(* start and one action applies each function to them.                     *)

\* largest price and iNAV, in hundredths, of the dense part of the inputs
MaxMetric == 12

\* the instruments of ETF_DATABASE above, an instrument holding 0.0087 g per
\* unit, and a record without its metal-per-unit field
MetricEtfs ==
    {gold_etfs[i] : i \in 1..Len(gold_etfs)}
    \cup {silver_etfs[i] : i \in 1..Len(silver_etfs)}
    \cup {[symbol |-> "GOLDIETF", type |-> "gold", isin |-> "INF109KC16G0",
           gold_per_unit |-> 870],
          [symbol |-> "AXISGOLD", type |-> "gold", isin |-> "INF846K01EW8"]}

Inputs(etf, price, inav, amc, prev, static, gold, silver) ==
    [op |-> "input", etf |-> etf, price |-> price, inav |-> inav, amc |-> amc,
     prevClose |-> prev, static |-> static, mcx_gold |-> gold,
     mcx_silver |-> silver]

\* prices and iNAVs for the discount and the change
MetricInputs ==
    {Inputs(etf, price, inav, amc, prev, static, 614800, 7419) :
        etf \in {gold_etfs[1]},
        price \in (1..MaxMetric) \cup {31000},
        inav \in (-1..MaxMetric) \cup {30000},
        amc \in {0},
        prev \in {0, 7},
        static \in {EmptyDict}}
    \cup {Inputs(etf, price, 0, amc, 5450, static, 614800, 7419) :
            etf \in {gold_etfs[2], silver_etfs[1]},
            price \in {5500, 31000},
            amc \in {0, 5490},
            static \in {EmptyDict, StaticEntries[1]}}

\* instruments, prices and spot prices for calculate_mcx_fields
McxFieldInputs ==
    {Inputs(etf, price, 0, 0, 0, EmptyDict, gold, silver) :
        etf \in MetricEtfs,
        price \in {0, 1, 5500, 55000},
        gold \in {0 - 100, 0, 614800, 620000},
        silver \in {0, 7419}}

\* what one attempt of scrape_etf_fast may find: a timeout of the wait, an
\* exception, a page with a price that is not positive, a page with a price
PageRaises == [kind |-> "exception"]
AttemptPages ==
    {PageTimeout, PageRaises, Quote(0, 0, 0, ""), GoodQuote,
     Quote(5520, 0, 0, "")}

\* every pattern of outcomes over the attempts scrape_etf_fast can make
RetryInputs ==
    {[pages |-> pages] @@ Inputs(gold_etfs[1], 0, 0, 0, 0, EmptyDict, 614800, 7419) :
        pages \in [1..(max_retries + 1) -> AttemptPages]}

\* records save_cache may be given: what an adapter returns, what load_cache
\* returns for a cache of some age (annotated) or for no cache, and records
\* whose timestamp is missing or does not parse
CacheRecords ==
    LET t == At(1, 12, 35)
    IN  {Rates(g, sv, src, t) : g \in {6150, 614800}, sv \in {7419, 7421},
                               src \in {"IBJA (Requests)", "IBJA (Selenium)", "MCX_Spot"}}
        \cup {load_cache(Json(SavedAt(t - a)), t) : a \in {0, 30, 121, 800, 1500}}
        \cup {ZeroFallback(t),
              DictSet(SavedAt(t), "timestamp", BadStamp),
              DictPop(SavedAt(t), "timestamp")}

\* ... and the minutes that pass before load_cache reads the file
RecordInputs ==
    {[op |-> "record", data |-> d, at |-> At(1, 12, 35) + a] :
        d \in CacheRecords, a \in {0, 1, 59, 121, 800, 1500}}

InitMetrics ==
    /\ InitWith(At(1, 12, 35), Absent, 0, 0)
    /\ CycleIdle("off", Absent, GoodSites)
    /\ calc \in MetricInputs \cup McxFieldInputs \cup RetryInputs \cup RecordInputs

\* the record scrape_etf_fast returns when the quote page shows the inputs
FastOf(in) ==
    scrape_etf_fast(IF "pages" \in DOMAIN in
                    THEN in.pages
                    ELSE [i \in 1..(max_retries + 1) |->
                             Quote(in.price, in.inav, in.prevClose, "")],
                    in.amc, in.etf.symbol, GetOr(in.etf, "isin", ""), 0, now)

Applied(op, out) == [op |-> op, in |-> calc, out |-> out]

\* lines 555-579
ApplyScrapeEtfFast ==
    /\ calc.op = "input"
    /\ calc' = Applied("scrape_etf_fast", FastOf(calc))
    /\ UNCHANGED <<now, ticksLeft, writes, spotVars, cycVars, drivers>>

\* lines 812-834 on the record scrape_etf_batch_parallel builds from it
ApplyCombined ==
    /\ calc.op = "input"
    /\ FastOf(calc) # None
    /\ calc' = Applied("combined",
                       Some(Combined(DictMerge(calc.etf, Get(FastOf(calc))),
                                     calc.static, calc.mcx_gold,
                                     calc.mcx_silver, now)))
    /\ UNCHANGED <<now, ticksLeft, writes, spotVars, cycVars, drivers>>

\* lines 720-750 on the instrument with the price
ApplyCalculateMcxFields ==
    /\ calc.op = "input"
    /\ calc' = Applied("calculate_mcx_fields",
                       Some(calculate_mcx_fields(
                                DictSet(calc.etf, "price", calc.price),
                                calc.mcx_gold, calc.mcx_silver)))
    /\ UNCHANGED <<now, ticksLeft, writes, spotVars, cycVars, drivers>>

\* lines 720-750 once more, on the quote the first application returned
ApplyCalculateMcxFieldsAgain ==
    /\ calc.op = "calculate_mcx_fields"
    /\ calc' = [op |-> "calculate_mcx_fields twice", in |-> calc.in,
                first |-> calc.out,
                out |-> Some(calculate_mcx_fields(Get(calc.out),
                                                  calc.in.mcx_gold,
                                                  calc.in.mcx_silver))]
    /\ UNCHANGED <<now, ticksLeft, writes, spotVars, cycVars, drivers>>

\* mcx_scraper.py lines 176-189, then lines 108-133 on the file written
ApplySaveThenLoad ==
    /\ calc.op = "record"
    /\ calc' = Applied("save_cache",
                       [file |-> save_cache(calc.data),
                        loaded |-> load_cache(save_cache(calc.data), calc.at)])
    /\ UNCHANGED <<now, ticksLeft, writes, spotVars, cycVars, drivers>>

NextMetrics ==
    \/ ApplySaveThenLoad
    \/ ApplyScrapeEtfFast
    \/ ApplyCombined
    \/ ApplyCalculateMcxFields
    \/ ApplyCalculateMcxFieldsAgain

SpecMetrics == InitMetrics /\ [][NextMetrics]_vars

----------------------------------------------------------------------------
(* The worker pool of scrape_all_etfs_parallel on its own: the batches of  *)
(* an instrument list and the workers that go through them, with the       *)
(* fetch of an instrument reduced to its symbol.                           *)

\* longest instrument list of the small inputs
MaxPool == 7
\* BATCH_SIZE as the source sets it
SourceBatchSize == 5

\* the symbols of ETF_LIST, in its order
ETF_SYMBOLS ==
    <<"GOLDBEES", "HDFCGOLD", "SETFGOLD", "GOLDIETF", "GOLD1", "AXISGOLD",
      "GOLDSHARE", "BSLGOLDETF", "TATAGOLD", "GOLD360", "GOLDCASE",
      "SILVERBEES", "SILVERIETF", "HDFCSILVER", "SILVER1", "SBISILVER",
      "SILVER", "AXISILVER", "TATSILV", "SILVERCASE">>

\* the whole list with the batch size of the source, and short lists with
\* small batch sizes
PoolInputs ==
    {[op |-> "pool", etf_list |-> ETF_SYMBOLS, batch_size |-> SourceBatchSize]}
    \cup {[op |-> "pool", etf_list |-> SubSeq(ETF_SYMBOLS, 1, n), batch_size |-> k] :
            n \in 0..MaxPool, k \in 1..3}

InitPool ==
    /\ InitWith(At(1, 12, 35), Absent, 0, 0)
    /\ calc \in PoolInputs
    /\ CycleIdleWith("off", Absent, GoodSites,
                     Len(Batches(calc.etf_list, calc.batch_size)))

PoolBatches == Batches(calc.etf_list, calc.batch_size)
Running == {b \in DOMAIN wpc : wpc[b] = "scrape_etf_fast"}

\* a task taken from the queue whatever the number of running workers
PoolWorkerStart_unbounded(b) ==
    /\ calc.op = "pool"
    /\ wpc[b] = "queued"
    /\ \A a \in 1..(b - 1) : wpc[a] # "queued"
    /\ wpc' = [wpc EXCEPT ![b] = "scrape_etf_fast"]
    /\ UNCHANGED <<now, ticksLeft, writes, spotVars, sites, mcx_data, staticFile, cyc,
                   mcx_prices, static_cache, staticReadAt,
                   needs_static_refresh, refreshReadAt, static_idx,
                   static_data_list, wresults, fetched, merged, all_results,
                   success_count, snapshot, nse_pages, drivers, calc>>

\* lines 803-807: ThreadPoolExecutor(max_workers=MAX_WORKERS) takes the
\* submitted tasks in submission order, at most MAX_WORKERS at a time
PoolWorkerStart(b) ==
    /\ calc.op = "pool"
    /\ wpc[b] = "queued"
    /\ \A a \in 1..(b - 1) : wpc[a] # "queued"
    /\ Cardinality(Running) < MAX_WORKERS
    /\ wpc' = [wpc EXCEPT ![b] = "scrape_etf_fast"]
    /\ UNCHANGED <<now, ticksLeft, writes, spotVars, sites, mcx_data, staticFile, cyc,
                   mcx_prices, static_cache, staticReadAt,
                   needs_static_refresh, refreshReadAt, static_idx,
                   static_data_list, wresults, fetched, merged, all_results,
                   success_count, snapshot, nse_pages, drivers, calc>>

\* lines 691-707: one round of `for etf in etf_batch`, and the return after
\* the last one
PoolWorkerStep(b) ==
    /\ calc.op = "pool"
    /\ wpc[b] = "scrape_etf_fast"
    /\ wresults' = [wresults EXCEPT
                       ![b] = Append(@, PoolBatches[b][Len(@) + 1])]
    /\ wpc' = [wpc EXCEPT ![b] = IF Len(wresults[b]) + 1 = Len(PoolBatches[b])
                                 THEN "returned" ELSE @]
    /\ UNCHANGED <<now, ticksLeft, writes, spotVars, sites, mcx_data, staticFile, cyc,
                   mcx_prices, static_cache, staticReadAt,
                   needs_static_refresh, refreshReadAt, static_idx,
                   static_data_list, fetched, merged, all_results,
                   success_count, snapshot, nse_pages, drivers, calc>>

NextPool ==
    \/ \E b \in DOMAIN wpc : PoolWorkerStart(b)
    \/ \E b \in DOMAIN wpc : PoolWorkerStep(b)

SpecPool == InitPool /\ [][NextPool]_vars

----------------------------------------------------------------------------
(* Properties                                                              *)

\* a call has returned after finding the cache stale
StaleCallDone == pc = "done" /\ ~fresh
\* every clock read of the current call saw the same instant
OneInstant == now = callStart
\* the adapters the current call invoked, in order
Adapters == [i \in 1..Len(tried) |-> tried[i].adapter]
Attempted(a) == \E i \in 1..Len(tried) : tried[i].adapter = a
NoSuccess == \A i \in 1..Len(tried) : ~tried[i].ok
IsPrefix(p, q) == Len(p) <= Len(q) /\ \A i \in 1..Len(p) : p[i] = q[i]

\* the branch the if-chain of get_mcx_spot_prices selects when every window
\* predicate reads the instant t
RouteOf(t) ==
    IF is_dead_zone(t) THEN "DEAD_ZONE"
    ELSE IF is_ibja_requests_only_window(t) THEN "PRIMARY_ONLY"
    ELSE IF is_ibja_active_window(t) THEN "CASCADE"
    ELSE IF is_mcx_active_window(t) THEN "TERTIARY_ONLY"
    ELSE "OFFLINE"

\* C1: a call that finds the cache stale enters exactly one of the five
\* routing branches, and when its clock reads all fall on one instant the
\* branch is a function of that instant's (weekday, hour, minute) alone,
\* whatever the cache holds and whatever the sources return.
C1_ExactlyOneBranch ==
    StaleCallDone =>
        /\ Len(branch) = 1
        /\ branch[1] \in {"PRIMARY_ONLY", "DEAD_ZONE", "CASCADE",
                          "TERTIARY_ONLY", "OFFLINE"}
        /\ OneInstant =>
               branch[1] = RouteOf(At(Weekday(callStart), Hour(callStart),
                                      Minute(callStart)))

C1_Witness ==
    /\ StaleCallDone /\ OneInstant
    /\ branch = <<"CASCADE">>
    /\ Weekday(callStart) = 2 /\ Hour(callStart) = 21 /\ Minute(callStart) = 59

\* the window table of the module docstring, as half-open intervals of the
\* minute of the day
DocumentedWindow(h, m) ==
    LET hm == h * 60 + m
    IN  IF 7 * 60 <= hm /\ hm < 12 * 60 + 30 THEN "PRIMARY_ONLY"
        ELSE IF 12 * 60 + 30 <= hm /\ hm < 12 * 60 + 40 THEN "DEAD_ZONE"
        ELSE IF 12 * 60 + 40 <= hm /\ hm < 22 * 60 THEN "CASCADE"
        ELSE "TERTIARY_ONLY"

\* C2: on a weekday 07:00-12:29 routes to requests-only, 12:30-12:39 to the
\* dead zone, 12:40-21:59 to the cascade and 22:00-06:59 to MCX-only.
C2_WeekdayBoundaries ==
    (StaleCallDone /\ OneInstant /\ Weekday(callStart) < 5) =>
        branch = <<DocumentedWindow(Hour(callStart), Minute(callStart))>>

C2_Witness ==
    /\ StaleCallDone /\ OneInstant /\ Weekday(callStart) < 5
    /\ Hour(callStart) = 12 /\ Minute(callStart) = 30
    /\ branch = <<"DEAD_ZONE">>

\* C3: a call routed to the dead zone or to the offline branch invokes no
\* adapter and never calls save_cache; the file is left as it was and the
\* value returned is load_cache's.
C3_CacheOnlyBranches ==
    (branch # <<>> /\ branch[1] \in {"DEAD_ZONE", "OFFLINE"}) =>
        /\ tried = <<>>
        /\ writes = <<>>
        /\ cacheFile = cacheAtCall
        /\ pc \in {"load_cache", "done"}
        /\ pc = "done" =>
               /\ via = "load_cache"
               /\ \E t \in callStart..now : result = load_cache(cacheAtCall, t)

C3_Witness ==
    /\ pc = "done" /\ branch = <<"DEAD_ZONE">>
    /\ cacheFile.kind = "json" /\ result.source = "MCX_Spot"

C5_StopAtFirstSuccess ==
    /\ \A i \in 1..Len(tried) : tried[i].ok => i = Len(tried)
    /\ (tried # <<>> /\ tried[Len(tried)].ok) => pc = "done" /\ via = "source"

C5_Witness ==
    /\ pc = "done" /\ branch = <<"CASCADE">>
    /\ Len(tried) = 2 /\ ~tried[1].ok
    /\ tried[2] = [adapter |-> "selenium", ok |-> TRUE]
    /\ Hour(callStart) >= 17

\* the spot cache file holds a record whose timestamp parses
Readable(file) ==
    /\ file.kind = "json"
    /\ "timestamp" \in DOMAIN file.data
    /\ file.data.timestamp.iso

\* C6: when no adapter of a call returned a result, the call returns what
\* load_cache returns; if the file holds a readable record, that is the
\* record with its prices and source unchanged, annotated with
\* cache_age_hours (its age when load_cache read the clock) and a note.
C6_ExhaustionReturnsCache ==
    (StaleCallDone /\ NoSuccess) =>
        /\ via = "load_cache"
        /\ cacheFile = cacheAtCall
        /\ Readable(cacheFile) =>
               /\ result.gold_per_gram = cacheFile.data.gold_per_gram
               /\ result.silver_per_gram = cacheFile.data.silver_per_gram
               /\ result.source = cacheFile.data.source
               /\ result.timestamp = cacheFile.data.timestamp
               /\ "note" \in DOMAIN result
               /\ "cache_age_hours" \in DOMAIN result
               /\ \E t \in callStart..now :
                      result.cache_age_hours
                          = Some(RoundTenths(t - cacheFile.data.timestamp.at))

C6_Witness ==
    /\ StaleCallDone /\ Len(tried) = 3 /\ NoSuccess
    /\ Readable(cacheFile)
    /\ result.gold_per_gram = 614800
    /\ result.cache_age_hours = Some(20)

\* C8 as claimed: is_cache_fresh returns False if and only if the entry is at
\* least 120 minutes old.
C8_FreshIffYoungerThanTtl ==
    (pc \notin {"idle", "is_cache_fresh"} /\ Readable(cacheAtCall)) =>
        (fresh <=> freshAt - cacheAtCall.data.timestamp.at
                       < CACHE_VALIDITY_HOURS * 60)

\* the file writes since the cycle's spot call started that store the value
\* v: the file's record, or a row of it, holds every field of v but the age
\* annotation
Holds(d, v) ==
    \A k \in (DOMAIN v) \ {"cache_age_hours"} : k \in DOMAIN d /\ d[k] = v[k]
WritesStoring(v) ==
    {j \in 1..Len(writes) :
        IF writes[j].content.kind = "json"
        THEN Holds(writes[j].content.data, v)
        ELSE \E i \in 1..Len(writes[j].content.rows) :
                 Holds(writes[j].content.rows[i], v)}

\* C7 as claimed: when the cycle returns, every successful fetch it made (the
\* spot fetch, every scrape_etf_fast, every scrape_static_fields) is stored by
\* exactly one cache write.
C7_EverySuccessWrittenOnce ==
    cyc = "done" =>
        /\ via = "source" => Cardinality(WritesStoring(result)) = 1
        /\ \A i \in 1..Len(static_data_list) :
               Cardinality(WritesStoring(static_data_list[i])) = 1
        /\ \A sym \in Symbols :
               fetched[sym] # None
                   => Cardinality(WritesStoring(Get(fetched[sym]))) = 1

\* the static cache file is a list of rows with a timestamp that parses
StampedRows(file) ==
    /\ file.kind = "csv"
    /\ Len(file.rows) > 0
    /\ "timestamp" \in DOMAIN file.rows[1]
    /\ file.rows[1].timestamp.iso
\* the cycle has not written the static cache file
NoStaticWrite == \A j \in 1..Len(writes) : writes[j].file # STATIC_CACHE_FILE_DATA
\* load_static_cache, should_refresh_static_cache have returned
Loaded == cyc \notin {"off", "ready", "get_mcx_spot_prices", "load_static_cache"}
Checked == Loaded /\ cyc # "should_refresh_static_cache"
\* the age of the static cache file, in seconds, at instant t
StaticAge(t) == age_seconds(t, staticFile.rows[1].timestamp.at)

Annotations == {"note", "cache_age_hours", "warning"}

\* C10: no step taken while is_cache_fresh, load_cache, load_static_cache or
\* should_refresh_static_cache is the call in progress changes either cache
\* file, and the spot cache file never holds the annotations load_cache adds
\* to its return value.
C10_ReadsLeaveCachesAlone ==
    /\ [](cacheFile.kind = "json" => DOMAIN cacheFile.data \cap Annotations = {})
    /\ [][(\/ pc \in {"is_cache_fresh", "load_cache"}
           \/ cyc \in {"load_static_cache", "should_refresh_static_cache"})
             => (cacheFile' = cacheFile /\ staticFile' = staticFile)]_vars

C10_Witness ==
    /\ Checked /\ ~needs_static_refresh /\ DOMAIN static_cache = Symbols
    /\ fresh /\ via = "load_cache"
    /\ "note" \in DOMAIN mcx_prices
    /\ cacheFile = cacheAtCall /\ Readable(cacheFile)
    /\ "note" \notin DOMAIN cacheFile.data
    /\ writes = <<>>

\* C11: when the spot cache file is missing, is not JSON, or holds a record
\* whose timestamp is missing or does not parse, is_cache_fresh returns False
\* and load_cache returns the zero-valued record: gold_per_gram = 0,
\* silver_per_gram = 0, source = "Fallback".
C11_UnreadableGivesFallback ==
    ~Readable(cacheAtCall) =>
        /\ pc \notin {"idle", "is_cache_fresh"} => ~fresh
        /\ (pc = "done" /\ via = "load_cache") =>
               /\ result.gold_per_gram = 0
               /\ result.silver_per_gram = 0
               /\ result.source = "Fallback"
               /\ result.cache_age_hours = None

C11_Witness ==
    /\ pc = "done" /\ via = "load_cache" /\ ~fresh
    /\ cacheAtCall.kind = "json"
    /\ DictGet(cacheAtCall.data, "timestamp") = Some(BadStamp)
    /\ cacheAtCall.data.gold_per_gram > 0
    /\ result.source = "Fallback"

C13_StaticTtlLonger ==
    (/\ Checked /\ NoStaticWrite
     /\ StampedRows(staticFile) /\ Readable(cacheAtCall)
     /\ cacheAtCall.data.timestamp.at <= staticFile.rows[1].timestamp.at
     /\ fresh)
        => ~needs_static_refresh

\* the quotes of the snapshot scrape_all_etfs_parallel returned
Quotes == snapshot.gold_etfs \o snapshot.silver_etfs
\* the fetch of an instrument failed: scrape_etf_fast returned None (or was
\* never reached), or a record without a positive price
FetchFailed(sym) ==
    fetched[sym] = None \/ GetOr(Get(fetched[sym]), "price", 0) <= 0

\* C14 as claimed: the snapshot holds one quote for every instrument of
\* ETF_LIST, an instrument whose fetch failed with status "error", so the
\* number of quotes equals total_count.
C14_EveryInstrumentEmitted ==
    cyc = "done" =>
        /\ Len(Quotes) = snapshot.total_count
        /\ \A sym \in Symbols :
               \E i \in 1..Len(Quotes) :
                   /\ Quotes[i].symbol = sym
                   /\ FetchFailed(sym) => Quotes[i].status = "error"

\* C15 as claimed: scrape_etf_batch_parallel returns one result per
\* instrument of its batch, in batch order, with status "error" for an
\* instrument whose fetch failed and "live" for every other.
C15_OneResultPerInstrument ==
    \A b \in 1..NumBatches :
        wpc[b] = "returned" =>
            /\ Len(wresults[b]) = Len(Batch(b))
            /\ \A i \in 1..Len(wresults[b]) :
                   /\ wresults[b][i].symbol = Batch(b)[i].symbol
                   /\ wresults[b][i].status
                          = IF FetchFailed(Batch(b)[i].symbol)
                            THEN "error" ELSE "live"

\* the static_cache entry the merge used for a symbol ({} when it has none)
StaticOf(sym) == GetOr(static_cache, sym, EmptyDict)

\* C16 as claimed: for every field present both in an instrument's fetched
\* record and in its static cache entry, the emitted quote carries the
\* fetched value.
C16_DynamicOverStatic ==
    cyc = "done" =>
        \A i \in 1..Len(Quotes) :
            LET dynamic == Get(fetched[Quotes[i].symbol])
                static == StaticOf(Quotes[i].symbol)
            IN  \A k \in (DOMAIN dynamic) \cap (DOMAIN static) :
                    Quotes[i][k] = dynamic[k]

\* C17 as claimed: in every emitted quote change is price minus the quote's
\* own prevClose when that is > 0 and 0 otherwise, and changePercent is
\* change / prevClose * 100 (0 when prevClose is not > 0), to two decimals.
C17_ChangeFromOwnPrevClose ==
    cyc = "done" =>
        \A i \in 1..Len(Quotes) :
            LET q == Quotes[i]
            IN  /\ q.change = IF q.prevClose > 0 THEN q.price - q.prevClose ELSE 0
                /\ q.changePercent = IF q.prevClose > 0
                                     THEN Percent(q.price - q.prevClose, q.prevClose)
                                     ELSE 0

\* r is n / d rounded to the nearest integer, for d > 0
Nearest(r, n, d) ==
    LET diff == r * d - n
    IN  2 * (IF diff >= 0 THEN diff ELSE 0 - diff) <= d

\* the record a metric function returned, when it returned one
Returned(op) == calc.op = op /\ calc.out # None

\* C18: for every price and iNAV, the discount computed by scrape_etf_fast
\* and by the merge is 0 whenever the iNAV is <= 0 and otherwise
\* (price - inav) / inav * 100 rounded to two decimals; price 310 with iNAV 0
\* gives 0 and price 310 with iNAV 300 gives 3.33.
C18_DiscountGuarded ==
    \A op \in {"scrape_etf_fast", "combined"} :
        Returned(op) =>
            LET q == Get(calc.out)
            IN  /\ q.inav <= 0 => q.discount = 0
                /\ q.inav > 0 =>
                       Nearest(q.discount, (q.price - q.inav) * 10000, q.inav)
                /\ q.price = 31000 /\ q.inav = 0 => q.discount = 0
                /\ q.price = 31000 /\ q.inav = 30000 => q.discount = 333

C18_Witness ==
    /\ Returned("combined")
    /\ Get(calc.out).price = 31000
    /\ Get(calc.out).inav = 30000
    /\ Get(calc.out).discount = 333

\* the metal per unit and the spot price calculate_mcx_fields was given for
\* its instrument
MetalGiven ==
    IF GetOr(calc.in.etf, "type", "") = "gold"
    THEN GetOr(calc.in.etf, "gold_per_unit", 0)
    ELSE GetOr(calc.in.etf, "silver_per_unit", 0)
SpotGiven ==
    IF GetOr(calc.in.etf, "type", "") = "gold"
    THEN calc.in.mcx_gold ELSE calc.in.mcx_silver

\* C19 as claimed: for every instrument and every spot price, also one of 0
\* or below, calculate_mcx_fields sets effective_price_per_gram to
\* price / metalPerUnit rounded to two decimals when metalPerUnit > 0 and to 0
\* otherwise; price 550.00 with 0.0087 g per unit gives 63218.39.
C19_EffectivePriceForEverySpot ==
    Returned("calculate_mcx_fields") =>
        LET e == Get(calc.out).effective_price_per_gram
            price == calc.in.price
        IN  /\ MetalGiven <= 0 => e = 0
            /\ MetalGiven > 0 /\ price <= 5500 =>
                   Nearest(e, price * 100000, MetalGiven)
            /\ MetalGiven = 870 /\ price = 55000 => e = 6321839

\* C20: calculate_mcx_fields sets discount_vs_mcx to
\* (effective price per gram - spot) / spot * 100, to two decimals, with the
\* gold spot price for a gold instrument and the silver spot price for a
\* silver one, and to 0 whenever that spot price is <= 0.
C20_DiscountVsSpotByType ==
    Returned("calculate_mcx_fields") =>
        LET d == Get(calc.out).discount_vs_mcx
            price == calc.in.price
        IN  /\ SpotGiven <= 0 => d = 0
            /\ SpotGiven > 0 /\ MetalGiven <= 0 => d = 0 - 10000
            /\ SpotGiven > 0 /\ MetalGiven > 0 =>
                   d = RoundMulDiv(price, 1000000000, SpotGiven * MetalGiven)
                       - 10000
            /\ SpotGiven > 0 /\ MetalGiven = 100000 =>
                   Nearest(d, (price - SpotGiven) * 10000, SpotGiven)
            /\ /\ calc.in.etf.symbol = "GOLDBEES"
               /\ price = 5500
               /\ calc.in.mcx_gold = 614800
               => d = 295
            /\ /\ calc.in.etf.symbol = "TATSILV"
               /\ price = 5500
               /\ calc.in.mcx_silver = 7419
               => d = 64134

C20_Witness ==
    /\ Returned("calculate_mcx_fields")
    /\ calc.in.etf.symbol = "TATSILV"
    /\ calc.in.price = 5500
    /\ calc.in.mcx_gold = 614800
    /\ calc.in.mcx_silver = 7419
    /\ Get(calc.out).discount_vs_mcx = 64134

\* C21: calculate_mcx_fields applied a second time to the quote it returned,
\* with the same spot prices, returns that quote unchanged: the three
\* computed fields and every other field.
C21_McxFieldsIdempotent ==
    calc.op = "calculate_mcx_fields twice" => calc.out = calc.first

C21_Witness ==
    /\ calc.op = "calculate_mcx_fields twice"
    /\ calc.in.etf.symbol = "GOLDBEES"
    /\ calc.in.price = 5500
    /\ calc.in.mcx_gold = 614800
    /\ Get(calc.first).effective_price_per_gram = 632911
    /\ Get(calc.out).discount_vs_mcx = 295

\* how often the current call invoked an adapter
Times(a) == Cardinality({i \in 1..Len(tried) : tried[i].adapter = a})

\* C22 as claimed: in the spot-price chain a source whose attempt fails is
\* tried again, up to 2 extra times, before the chain advances to the next
\* source or to the cache: a finished call has invoked every source that
\* never succeeded three times.
C22_FailedSourceRetried ==
    pc = "done" =>
        \A i \in 1..Len(tried) :
            (\A j \in 1..Len(tried) :
                 tried[j].adapter = tried[i].adapter => ~tried[j].ok)
            => Times(tried[i].adapter) = 3

\* C23 as claimed: whatever the sources return, whatever the cache files
\* hold and whether or not a browser session can be created, no exception
\* leaves get_mcx_spot_prices or scrape_all_etfs_parallel, and a call left
\* without any spot data returns the zero-valued "Fallback" record.
C23_NoExceptionEscapes ==
    /\ cyc # "raised"
    /\ (pc = "done" /\ NoSuccess /\ ~Readable(cacheAtCall)) =>
           /\ result.source = "Fallback"
           /\ result.gold_per_gram = 0
           /\ result.silver_per_gram = 0

\* the sessions the worker of batch b holds
Held(b) == {session \in drivers.open : session.worker = b}

C25_OneSessionPerWorker ==
    cyc = "dynamic" =>
        /\ \A b \in 1..NumBatches : Cardinality(Held(b)) <= 1
        /\ Cardinality(drivers.open) <= MAX_WORKERS

\* the place of a symbol in the instrument list of the pool
PlaceOf(symbol) ==
    CHOOSE i \in 1..Len(calc.etf_list) : calc.etf_list[i] = symbol

WritesOf(file) == {j \in 1..Len(writes) : writes[j].file = file}
InCycle == cyc \notin {"off", "ready"}

\* C27: within one cycle of scrape_all_etfs_parallel the spot cache and the
\* static cache are each written at most once, neither is written once the
\* worker pool has started, and under every interleaving a step that changes
\* a results list is a step of that batch's own worker and changes no other
\* worker's list.
C27_OneWriterPerKey ==
    /\ [](InCycle => /\ Cardinality(WritesOf(CACHE_FILE)) <= 1
                     /\ Cardinality(WritesOf(STATIC_CACHE_FILE_DATA)) <= 1)
    /\ [][cyc = "dynamic" =>
              /\ writes' = writes
              /\ cacheFile' = cacheFile
              /\ staticFile' = staticFile
              /\ \A b \in 1..NumBatches :
                     wresults'[b] # wresults[b] =>
                         /\ wpc[b] \in {"scrape_etf_fast", "amc"}
                         /\ \A a \in (1..NumBatches) \ {b} :
                                wresults'[a] = wresults[a]]_vars

C27_Witness ==
    /\ cyc = "done"
    /\ Cardinality(WritesOf(CACHE_FILE)) = 1
    /\ Cardinality(WritesOf(STATIC_CACHE_FILE_DATA)) = 1
    /\ merged = <<2, 1>>
    /\ \A b \in 1..NumBatches : Len(wresults[b]) = Len(Batch(b))

\* the instants of the timestamps a cache file holds
SpotStamps(file) ==
    IF Readable(file) THEN {file.data.timestamp.at} ELSE {}
StaticStamps(file) ==
    IF file.kind = "csv"
    THEN {file.rows[i].timestamp.at :
            i \in {j \in 1..Len(file.rows) :
                      /\ "timestamp" \in DOMAIN file.rows[j]
                      /\ file.rows[j].timestamp.iso}}
    ELSE {}

\* C28: with a clock that never goes back and cache files written by
\* earlier runs, every write of the spot cache and of the static cache
\* stores a timestamp that is not older than any the file held before, and
\* a call that returned what load_cache loaded leaves the spot cache file as
\* it found it.
C28_TimestampsNeverDecrease ==
    /\ [][/\ cacheFile' # cacheFile =>
                /\ SpotStamps(cacheFile') # {}
                /\ \A new \in SpotStamps(cacheFile') :
                       \A old \in SpotStamps(cacheFile) : new >= old
          /\ staticFile' # staticFile =>
                /\ StaticStamps(staticFile') # {}
                /\ \A new \in StaticStamps(staticFile') :
                       \A old \in StaticStamps(staticFile) : new >= old]_vars
    /\ []((pc = "done" /\ via = "load_cache") =>
              /\ cacheFile = cacheAtCall
              /\ WritesOf(CACHE_FILE) = {})

C28_Witness ==
    /\ cyc = "done"
    /\ Readable(cacheAtCall) /\ Readable(cacheFile)
    /\ cacheFile.data.timestamp.at > cacheAtCall.data.timestamp.at
    /\ via = "source"
    /\ StaticStamps(staticFile) = {now}
    /\ Cardinality(WritesOf(STATIC_CACHE_FILE_DATA)) = 1

\* step 1 of run_scraper.main got its prices from a source
Step1Live == mcx_data.via = "source"

\* C29: in a run of run_scraper.main, which calls get_mcx_spot_prices in
\* step 1 and again inside scrape_all_etfs_parallel, the spot cache is
\* written at most once, and when the call of step 1 got a live value the
\* second call finds the cache fresh, invokes no source and returns the same
\* prices from the same source.
C29_SingleSpotSnapshot ==
    (InCycle /\ mcx_data.via # "none") =>
        /\ Len(mcx_data.writes) + Cardinality(WritesOf(CACHE_FILE)) <= 1
        /\ Step1Live =>
               /\ Len(mcx_data.writes) = 1
               /\ tried = <<>>
               /\ pc \notin {"is_cache_fresh"} => fresh
               /\ pc = "done" =>
                      /\ via = "load_cache"
                      /\ result.gold_per_gram = mcx_data.returned.gold_per_gram
                      /\ result.silver_per_gram = mcx_data.returned.silver_per_gram
                      /\ result.source = mcx_data.returned.source
               /\ cyc \notin {"get_mcx_spot_prices"} =>
                      mcx_prices.gold_per_gram = mcx_data.returned.gold_per_gram

C29_Witness ==
    /\ cyc = "done"
    /\ Step1Live
    /\ mcx_data.returned.source = "IBJA (Requests)"
    /\ snapshot.mcx_spot_prices.gold_per_gram = mcx_data.returned.gold_per_gram
    /\ snapshot.mcx_spot_prices.gold_per_gram > 0
    /\ "note" \in DOMAIN snapshot.mcx_spot_prices
    /\ "note" \notin DOMAIN mcx_data.returned

\* C30 as claimed: a call started on a Saturday or a Sunday, at any time of
\* day, never enters the cascade and invokes neither
\* scrape_ibja_with_requests nor scrape_ibja_with_selenium: it uses the MCX
\* source or the cache only.
C30_NoIbjaOnWeekend ==
    (Weekday(callStart) >= 5 /\ Weekday(now) >= 5) =>
        /\ \A i \in 1..Len(branch) : branch[i] # "CASCADE"
        /\ ~Attempted("requests")
        /\ ~Attempted("selenium")

\* the attempts of the pattern that find no page or no positive price
FailedAttempts(pages) ==
    {i \in DOMAIN pages : pages[i].kind # "page" \/ pages[i].price <= 0}

SomeSuccess == \E i \in 1..Len(tried) : tried[i].ok

\* C32: a call of get_mcx_spot_prices writes the spot cache at most once,
\* and once exactly when a source it invoked returned a result; what is
\* written is that result (without annotations), it is written before the
\* call returns, and a call that returns load_cache's record writes nothing.
C32_WriteIffSourceSucceeded ==
    cyc = "off" =>
        /\ Len(writes) <= 1
        /\ SomeSuccess <=> Len(writes) = 1
        /\ Len(writes) = 1 =>
               /\ pc = "done" /\ via = "source"
               /\ writes[1].file = CACHE_FILE
               /\ writes[1].content = save_cache(result)
               /\ cacheFile = writes[1].content
               /\ Holds(cacheFile.data, result)
        /\ (pc = "done" /\ via = "load_cache") =>
               writes = <<>> /\ cacheFile = cacheAtCall

C32_Witness ==
    /\ cyc = "off" /\ pc = "done" /\ via = "source"
    /\ Len(tried) = 3 /\ tried[3].ok
    /\ Len(writes) = 1
    /\ Readable(cacheAtCall) /\ cacheFile # cacheAtCall
    /\ cacheFile.data.source = "MCX_Spot"

\* the current call has made its freshness check
FreshnessChecked == pc \notin {"idle", "is_cache_fresh"}

\* C33: a call that finds is_cache_fresh true enters no time window,
\* invokes no source and returns the record of the cache file, which it
\* leaves as it is; this holds in particular for an entry saved by an
\* earlier call, for as long as is_cache_fresh holds for it.
C33_FreshCacheShortCircuits ==
    (cyc = "off" /\ FreshnessChecked) =>
        /\ fresh <=> is_cache_fresh(cacheAtCall, freshAt)
        /\ fresh =>
               /\ branch = <<>> /\ tried = <<>> /\ writes = <<>>
               /\ mcxGate = None
               /\ cacheFile = cacheAtCall
               /\ pc \in {"load_cache", "done"}
               /\ pc = "done" =>
                      /\ via = "load_cache"
                      /\ Holds(result, cacheAtCall.data)
                      /\ "note" \in DOMAIN result

\* a second call, 117 minutes after a first one saved what IBJA returned
C33_Witness ==
    /\ cyc = "off" /\ pc = "done" /\ fresh
    /\ callsLeft < MaxCalls - 1
    /\ cacheAtCall.data.source = "IBJA (Requests)"
    /\ freshAt - cacheAtCall.data.timestamp.at = 117
    /\ tried = <<>>
    /\ result.gold_per_gram = cacheAtCall.data.gold_per_gram

\* C34: when every window predicate of a call reads the same instant, the
\* final "all sources offline" branch is not taken: at every (weekday, hour,
\* minute) the dead zone, the requests-only window, the IBJA window or the
\* MCX window holds.
C34_OfflineUnreachableAtOneInstant ==
    (cyc = "off" /\ FreshnessChecked /\ ~fresh /\ OneInstant) =>
        /\ \/ is_dead_zone(now)
           \/ is_ibja_requests_only_window(now)
           \/ is_ibja_active_window(now)
           \/ is_mcx_active_window(now)
        /\ branch # <<>> => branch[1] # "OFFLINE"
        /\ pc = "done" => branch # <<>>

\* Saturday afternoon: only the MCX window's weekend rule holds
C34_Witness ==
    /\ cyc = "off" /\ StaleCallDone /\ OneInstant
    /\ Weekday(now) = 5 /\ Hour(now) = 13
    /\ ~is_dead_zone(now) /\ ~is_ibja_requests_only_window(now)
    /\ ~is_ibja_active_window(now)
    /\ branch = <<"TERTIARY_ONLY">>

\* C35: the branch a call takes, the MCX step of the cascade included, is
\* the one some single instant between the start and the end of the call
\* selects, also when the clock crosses a window boundary during the call.
C35_BranchOfSomeInstant ==
    (cyc = "off" /\ StaleCallDone) =>
        \E t \in callStart..now :
            /\ branch = <<RouteOf(t)>>
            /\ Attempted("mcx") => is_mcx_active_window(t)

\* the static refresh of the current cycle has run to its end
Refreshed == needs_static_refresh /\ cyc \in {"dynamic", "done"}
\* the instruments whose static fetch of this refresh succeeded
SucceededStatic == {static_data_list[i].symbol : i \in 1..Len(static_data_list)}

\* C36: a static refresh with at least one successful fetch leaves a static
\* cache (file and in-memory dict) that holds exactly the instruments that
\* succeeded, one entry each, all with the one new timestamp; a refresh
\* with no successful fetch leaves the file as it was and the cycle merges
\* with an empty static set.
C36_RefreshReplacesWhole ==
    Refreshed =>
        IF static_data_list # <<>>
        THEN /\ Cardinality(WritesOf(STATIC_CACHE_FILE_DATA)) = 1
             /\ staticFile.kind = "csv"
             /\ Len(staticFile.rows) = Cardinality(SucceededStatic)
             /\ {staticFile.rows[i].symbol : i \in 1..Len(staticFile.rows)}
                    = SucceededStatic
             /\ DOMAIN static_cache = SucceededStatic
             /\ \E t \in refreshReadAt..now :
                    /\ \A i \in 1..Len(staticFile.rows) :
                           staticFile.rows[i].timestamp = Stamp(t)
                    /\ \A sym \in SucceededStatic :
                           static_cache[sym].timestamp = Stamp(t)
        ELSE /\ NoStaticWrite
             /\ static_cache = EmptyDict

RoundTripKeys == {"gold_per_gram", "silver_per_gram", "source", "timestamp"}
AnnotationKeys == {"note", "cache_age_hours", "warning"}

\* C37: whatever record save_cache is given, the entry it writes holds no
\* note, cache_age_hours or warning and is the record otherwise; and
\* load_cache on that entry returns the gold_per_gram, silver_per_gram,
\* source and timestamp the record had (the records the program saves
\* carry the ISO timestamp of their fetch).
C37_SaveLoadRoundTrip ==
    calc.op = "save_cache" =>
        LET data == calc.in.data
            file == calc.out.file
            loaded == calc.out.loaded
        IN  /\ file.kind = "json"
            /\ DOMAIN file.data = (DOMAIN data) \ AnnotationKeys
            /\ \A k \in DOMAIN file.data : file.data[k] = data[k]
            /\ ("timestamp" \in DOMAIN data /\ data.timestamp.iso) =>
                   \A k \in RoundTripKeys : k \in DOMAIN loaded /\ loaded[k] = data[k]

\* a record load_cache returned for a cache 25 hours old is saved and read
\* again two hours later
C37_Witness ==
    /\ calc.op = "save_cache"
    /\ AnnotationKeys \subseteq DOMAIN calc.in.data
    /\ calc.in.at = At(1, 12, 35) + 121
    /\ calc.out.loaded.gold_per_gram = 614800
    /\ calc.out.loaded.source = "MCX_Spot"
    /\ calc.out.loaded.timestamp = Stamp(At(1, 12, 35) - 1500)
    /\ "note" \notin DOMAIN calc.out.file.data

\* the asset type ETF_DATABASE gives the instrument
TypeOf(symbol) ==
    ETF_LIST[CHOOSE i \in 1..Len(ETF_LIST) : ETF_LIST[i].symbol = symbol].type

\* C38: in a snapshot success_count is the number of emitted quotes with
\* status 'live' and a positive price, is len(gold_etfs) + len(silver_etfs)
\* and is at most total_count = len(ETF_LIST); no symbol is emitted twice
\* and every quote is in the list of its instrument's asset type.
C38_SnapshotCounts ==
    cyc = "done" =>
        LET emitted == snapshot.gold_etfs \o snapshot.silver_etfs
        IN  /\ snapshot.success_count = Len(emitted)
            /\ snapshot.success_count
                   = Cardinality({i \in 1..Len(emitted) :
                                     emitted[i].status = "live" /\ emitted[i].price > 0})
            /\ snapshot.total_count = Len(ETF_LIST)
            /\ snapshot.success_count <= snapshot.total_count
            /\ \A i, j \in 1..Len(emitted) :
                   emitted[i].symbol = emitted[j].symbol => i = j
            /\ \A i \in 1..Len(emitted) : emitted[i].symbol \in Symbols
            /\ \A i \in 1..Len(snapshot.gold_etfs) :
                   /\ snapshot.gold_etfs[i].type = "gold"
                   /\ TypeOf(snapshot.gold_etfs[i].symbol) = "gold"
            /\ \A i \in 1..Len(snapshot.silver_etfs) :
                   /\ snapshot.silver_etfs[i].type = "silver"
                   /\ TypeOf(snapshot.silver_etfs[i].symbol) = "silver"

\* a cycle in which the fetch of a gold instrument failed
C38_Witness ==
    /\ cyc = "done"
    /\ snapshot.success_count = snapshot.total_count - 1
    /\ Len(snapshot.silver_etfs) = 1
    /\ \E b \in 1..NumBatches : wresults[b] = <<>> /\ Batch(b)[1].type = "gold"

\* C39: a spot record is saved only when its gold and its silver price are
\* both positive, so the spot cache never holds a price that is not
\* positive, and a returned record with a zero price has source 'Fallback'.
C39_OnlyPositiveSaved ==
    cyc = "off" =>
        /\ \A j \in 1..Len(writes) :
               /\ writes[j].content.data.gold_per_gram > 0
               /\ writes[j].content.data.silver_per_gram > 0
        /\ cacheFile.kind = "json" =>
               /\ cacheFile.data.gold_per_gram > 0
               /\ cacheFile.data.silver_per_gram > 0
        /\ (pc = "done" /\ (result.gold_per_gram = 0 \/ result.silver_per_gram = 0)) =>
               result.source = "Fallback"

============================================================================
